---- MODULE Spec2Model ----
(***************************************************************************)
(* A model of the Bardic runtime engine (bardic/runtime/engine.py) driving *)
(* a compiled story.  The engine's fields are the variables, each public   *)
(* method is one action, and the helpers of the engine are operators that  *)
(* compute what the Python code computes.                                  *)
(***************************************************************************)
EXTENDS Integers, Sequences, FiniteSets, TLC

(***************************************************************************)
(* Bounds of the model.                                                    *)
(***************************************************************************)
\* largest value the story counter `count` may reach
MaxCount == 3
\* jump-chain steps after which a goto call is reported as not terminating
MaxChain == 13

(***************************************************************************)
(* Python values.  Every value carries its type tag.                       *)
(***************************************************************************)
I(n) == [t |-> "int", v |-> n]
S(s) == [t |-> "str", v |-> s]
B(b) == [t |-> "bool", v |-> b]
PyNone == [t |-> "none", v |-> 0]
Class(n) == [t |-> "class", v |-> n]
Dict(f) == [t |-> "dict", v |-> f]
List(items) == [t |-> "list", v |-> items]

\* the empty mapping {}
EmptyMap == [k \in {} |-> PyNone]

\* {**f, **g}: the entries of g win
Merge(f, g) ==
  [k \in (DOMAIN f) \cup (DOMAIN g) |-> IF k \in DOMAIN g THEN g[k] ELSE f[k]]

\* d[k] = v on a mapping
Put(f, k, v) == [x \in (DOMAIN f) \cup {k} |-> IF x = k THEN v ELSE f[x]]

\* bool(value)
Truthy(val) ==
  CASE val.t = "int" -> val.v # 0
    [] val.t = "str" -> val.v # ""
    [] val.t = "bool" -> val.v
    [] val.t = "none" -> FALSE
    [] val.t = "dict" -> DOMAIN val.v # {}
    [] val.t = "list" -> val.v # <<>>
    [] OTHER -> TRUE

\* type(value).__name__
TypeName(val) ==
  CASE val.t = "none" -> "NoneType"
    [] val.t = "class" -> "type"
    [] OTHER -> val.t

RECURSIVE PyRepr(_)
RECURSIVE JoinRepr(_, _)

\* ", ".join(repr(item) for item in items[k:])
JoinRepr(items, k) ==
  IF k > Len(items) THEN ""
  ELSE IF k = Len(items) THEN PyRepr(items[k])
  ELSE PyRepr(items[k]) \o ", " \o JoinRepr(items, k + 1)

\* repr(value)
PyRepr(val) ==
  CASE val.t = "int" -> ToString(val.v)
    [] val.t = "str" -> "'" \o val.v \o "'"
    [] val.t = "bool" -> IF val.v THEN "True" ELSE "False"
    [] val.t = "none" -> "None"
    [] val.t = "class" -> "<class '" \o val.v \o "'>"
    [] val.t = "list" -> "[" \o JoinRepr(val.v, 1) \o "]"
    [] OTHER -> "{...}"

\* str(value)
PyStr(val) == IF val.t = "str" THEN val.v ELSE PyRepr(val)

(***************************************************************************)
(* Python expressions.  An expression is its source text together with its *)
(* syntax tree; eval() answers a value or the exception it raises.         *)
(***************************************************************************)
Lit(val, src) == [op |-> "lit", src |-> src, val |-> val]
Name(id) == [op |-> "name", src |-> id, id |-> id]
BinOp(l, o, r) == [op |-> o, src |-> l.src \o " " \o o \o " " \o r.src, l |-> l, r |-> r]
Attr(l, attr) == [op |-> "attr", src |-> l.src \o "." \o attr, l |-> l, attr |-> attr]

Ok(val) == [cls |-> "", msg |-> "", v |-> val]
Raise(cls, msg) == [cls |-> cls, msg |-> msg, v |-> PyNone]

IsNum(val) == val.t \in {"int", "bool"}
AsInt(val) == IF val.t = "bool" THEN (IF val.v THEN 1 ELSE 0) ELSE val.v

OperandError(o, a, b) ==
  Raise("TypeError",
        IF o \in {">", "<"}
        THEN "'" \o o \o "' not supported between instances of '" \o TypeName(a)
             \o "' and '" \o TypeName(b) \o "'"
        ELSE "unsupported operand type(s) for " \o o \o ": '" \o TypeName(a)
             \o "' and '" \o TypeName(b) \o "'")

\* one binary operator applied to two values
Apply(o, a, b) ==
  CASE o = "+" ->
         IF IsNum(a) /\ IsNum(b) THEN Ok(I(AsInt(a) + AsInt(b)))
         ELSE IF a.t = "str" /\ b.t = "str" THEN Ok(S(a.v \o b.v))
         ELSE OperandError(o, a, b)
    [] o = "-" ->
         IF IsNum(a) /\ IsNum(b) THEN Ok(I(AsInt(a) - AsInt(b)))
         ELSE OperandError(o, a, b)
    [] o = "//" ->
         IF IsNum(a) /\ IsNum(b)
         THEN IF AsInt(b) = 0
              THEN Raise("ZeroDivisionError", "integer division or modulo by zero")
              ELSE Ok(I(AsInt(a) \div AsInt(b)))
         ELSE OperandError(o, a, b)
    [] o = ">" ->
         IF IsNum(a) /\ IsNum(b) THEN Ok(B(AsInt(a) > AsInt(b)))
         ELSE OperandError(o, a, b)
    [] o = "<" ->
         IF IsNum(a) /\ IsNum(b) THEN Ok(B(AsInt(a) < AsInt(b)))
         ELSE OperandError(o, a, b)
    [] o = "==" -> Ok(B(a = b \/ (IsNum(a) /\ IsNum(b) /\ AsInt(a) = AsInt(b))))
    [] OTHER -> Raise("SyntaxError", "invalid syntax (<string>, line 1)")

RECURSIVE Eval(_, _)

\* a binary operation whose operands evaluated to a and b
EvalBin(o, a, b) ==
  IF a.cls # "" THEN a ELSE IF b.cls # "" THEN b ELSE Apply(o, a.v, b.v)

\* an attribute read on an object that evaluated to a; the values of the
\* model have none of the attributes the story names
EvalAttr(a, attr) ==
  IF a.cls # "" THEN a
  ELSE Raise("AttributeError",
             "'" \o TypeName(a.v) \o "' object has no attribute '" \o attr \o "'")

\* eval(expression, {"__builtins__": safe_builtins}, env)
Eval(x, env) ==
  CASE x.op = "lit" -> Ok(x.val)
    [] x.op = "name" ->
         IF x.id \in DOMAIN env THEN Ok(env[x.id])
         ELSE Raise("NameError", "name '" \o x.id \o "' is not defined")
    [] x.op = "attr" -> EvalAttr(Eval(x.l, env), x.attr)
    [] OTHER -> EvalBin(x.op, Eval(x.l, env), Eval(x.r, env))

(***************************************************************************)
(* The compiled document: the nodes and commands the compilers emit.       *)
(***************************************************************************)
Text(value) == [type |-> "text", value |-> value]
Expr(x) == [type |-> "expression", code |-> x.src, ast |-> x]
Jump(target) == [type |-> "jump", target |-> target]
Assign(var, x) == [var |-> var, x |-> x]
PythonBlock(code) == [type |-> "python_block", code |-> code]
SetVar(var, x) == [type |-> "set_var", var |-> var, expression |-> x]
PythonStatement(code) == [type |-> "python_statement", code |-> code]
Branch(condition, content) == [condition |-> condition, content |-> content]
Conditional(branches) == [type |-> "conditional", branches |-> branches]
RenderDirective(name, args) == [type |-> "render_directive", name |-> name, args |-> args]
InputDirective(name) == [type |-> "input", name |-> name]
ForLoop(variable, collection, content) ==
  [type |-> "for_loop", variable |-> variable, collection |-> collection,
   content |-> content]

\* a choice text is a plain string (old format) or a token list (new format)
StrText(s) == [fmt |-> "str", s |-> s, toks |-> <<>>]
TokText(toks) == [fmt |-> "list", s |-> "", toks |-> toks]
\* condition None
NoCondition == [op |-> "none", src |-> ""]

\* repr() of one content token and of a token list, as str() of a list gives it
ReprToken(tok) ==
  IF tok.type = "text"
  THEN "{'type': 'text', 'value': '" \o tok.value \o "'}"
  ELSE "{'type': 'expression', 'code': '" \o tok.code \o "'}"

RECURSIVE ReprTokens(_)
ReprTokens(toks) ==
  IF toks = <<>> THEN ""
  ELSE IF Len(toks) = 1 THEN ReprToken(toks[1])
  ELSE ReprToken(toks[1]) \o ", " \o ReprTokens(Tail(toks))

\* f"{choice['text']}"
FormatText(text) ==
  IF text.fmt = "str" THEN text.s ELSE "[" \o ReprTokens(text.toks) \o "]"

\* f"{passage_id}:{text}:{target}"
ChoiceId(passage_id, text, target) ==
  passage_id \o ":" \o FormatText(text) \o ":" \o target

(***************************************************************************)
(* Exceptions raised by the engine's methods.                              *)
(***************************************************************************)
NoError == [cls |-> "", kind |-> ""]
Error(cls, kind) == [cls |-> cls, kind |-> kind]

\* one entry of the record of what a call did
Event(ev, p, n) == [ev |-> ev, p |-> p, n |-> n]

(***************************************************************************)
(* Command execution.                                                      *)
(***************************************************************************)
\* names that start with "_"
UnderscoreNames == {"_inputs", "_seen"}
StartsWithUnderscore(key) == key \in UnderscoreNames

\* _parse_literal on the source of an expression whose evaluation raised;
\* such a source is neither a number nor quoted at both ends
_parse_literal(value_str) ==
  IF value_str \in {"true", "True", "TRUE"} THEN B(TRUE)
  ELSE IF value_str \in {"false", "False", "FALSE"} THEN B(FALSE)
  ELSE S(value_str)

\* what _execute_set_var does with r, the outcome of eval()
StoreValue(cmd, state, r) ==
  IF r.cls = ""
  THEN [state |-> Put(state, cmd.var, r.v), raised |-> NoError, failed |-> FALSE]
  ELSE IF r.cls = "NameError"
  THEN [state |-> state, raised |-> Error("RuntimeError", "set_var"), failed |-> TRUE]
  ELSE [state |-> Put(state, cmd.var, _parse_literal(cmd.expression.src)),
        raised |-> NoError, failed |-> TRUE]

\* _execute_set_var: the new state, the error raised, whether eval() failed
_execute_set_var(cmd, state, context) ==
  StoreValue(cmd, state, Eval(cmd.expression, Merge(context, state)))

RECURSIVE ExecStatements(_, _, _)

\* one statement run: r is the outcome of evaluating its right-hand side
ExecAssign(code, i, env, r) ==
  IF r.cls # "" THEN [env |-> env, cls |-> r.cls]
  ELSE ExecStatements(code, i + 1, Put(env, code[i].var, r.v))

\* exec(code, ..., exec_context): the statements of code in order
ExecStatements(code, i, env) ==
  IF i > Len(code) THEN [env |-> env, cls |-> ""]
  ELSE ExecAssign(code, i, env, Eval(code[i].x, env))

\* the names a finished block writes back to state
Written(env, context) ==
  {key \in DOMAIN env : ~StartsWithUnderscore(key) /\ key \notin DOMAIN context}

\* what _execute_python_block does with done, the outcome of exec()
WriteBack(state, context, done) ==
  IF done.cls # ""
  THEN [state |-> state, raised |-> Error("RuntimeError", "python_block"),
        failed |-> TRUE]
  ELSE [state |-> [key \in (DOMAIN state) \cup Written(done.env, context) |->
                     IF key \in Written(done.env, context) THEN done.env[key]
                     ELSE state[key]],
        raised |-> NoError, failed |-> FALSE]

\* a python block whose code is run a second time after it ran through
_execute_python_block_twice(cmd, state, context) ==
  LET first == WriteBack(state, context, ExecStatements(cmd.code, 1, Merge(context, state)))
  IN IF first.failed THEN first
     ELSE WriteBack(first.state, context,
                    ExecStatements(cmd.code, 1, Merge(context, first.state)))

\* _execute_python_block: the new state, the error raised, whether exec() failed
_execute_python_block(cmd, state, context) ==
  WriteBack(state, context, ExecStatements(cmd.code, 1, Merge(context, state)))

RECURSIVE ExecFrom(_, _, _, _, _, _)

\* one command run: r is what the command's method answered
ExecNext(commands, i, r, context, p, log) ==
  IF r.raised # NoError
  THEN [state |-> r.state, raised |-> r.raised,
        log |-> Append(log, Event("cmd_failed", p, i))]
  ELSE ExecFrom(commands, i + 1, r.state, context, p,
                Append(log, Event(IF r.failed THEN "cmd_failed" ELSE "cmd_done", p, i)))

\* the loop of _execute_commands from command i on
ExecFrom(commands, i, state, context, p, log) ==
  IF i > Len(commands) THEN [state |-> state, raised |-> NoError, log |-> log]
  ELSE IF commands[i].type = "set_var"
  THEN ExecNext(commands, i, _execute_set_var(commands[i], state, context),
                context, p, log)
  ELSE IF commands[i].type = "python_block"
  THEN ExecNext(commands, i, _execute_python_block(commands[i], state, context),
                context, p, log)
  ELSE ExecFrom(commands, i + 1, state, context, p,
                Append(log, Event("cmd_skipped", p, i)))

\* _execute_commands
_execute_commands(commands, state, context, p, log) ==
  ExecFrom(commands, 1, state, context, p, log)

(***************************************************************************)
(* Rendering of content.                                                   *)
(***************************************************************************)
\* the inline marker an expression node leaves when its evaluation raises
ErrorMarker(code, r) ==
  CASE r.cls = "NameError" -> "{ERROR: undefined variable '" \o code \o "'}"
    [] r.cls \in {"TypeError", "AttributeError"} ->
         "{ERROR: " \o code \o " - " \o r.msg \o "}"
    [] OTHER -> "{ERROR: " \o code \o " - " \o r.cls \o ": " \o r.msg \o "}"

RECURSIVE EvalArgs(_, _, _)

\* one argument evaluated to r, the arguments after it to rest
ConsArg(r, rest) ==
  IF r.cls # "" \/ ~rest.ok THEN [ok |-> FALSE, data |-> <<>>]
  ELSE [ok |-> TRUE, data |-> <<r.v>> \o rest.data]

\* _parse_directive_args on positional arguments: the values, or the failure
EvalArgs(args, i, env) ==
  IF i > Len(args) THEN [ok |-> TRUE, data |-> <<>>]
  ELSE ConsArg(Eval(args[i], env), EvalArgs(args, i + 1, env))

\* the directive _process_render_directive builds from the evaluated arguments
Processed(directive, r) ==
  [type |-> "render_directive", name |-> directive.name,
   mode |-> IF r.ok THEN "evaluated" ELSE "error", data |-> r.data]

\* _process_render_directive with evaluate_directives = True
_process_render_directive(directive, state, context) ==
  Processed(directive, EvalArgs(directive.args, 1, Merge(context, state)))

\* what the three render operators return
Rendered(text, jump, directives, state, raised, log) ==
  [text |-> text, jump |-> jump, directives |-> directives, state |-> state,
   raised |-> raised, log |-> log]

RECURSIVE RenderFrom(_, _, _, _, _, _, _, _)
RECURSIVE BranchesFrom(_, _, _, _, _, _, _)
RECURSIVE _render_conditional(_, _, _, _, _)
RECURSIVE ItemsFrom(_, _, _, _, _, _, _, _, _)
RECURSIVE _render_loop(_, _, _, _, _)

\* an expression node whose evaluation raised adds nothing
ShownBlank(token, r) == IF r.cls = "" THEN PyStr(r.v) ELSE ""

\* the text an expression node adds: r is the outcome of eval()
Shown(token, r) == IF r.cls = "" THEN PyStr(r.v) ELSE ErrorMarker(token.code, r)

\* after a python_block node: r is what _execute_python_block answered
AfterBlock(tokens, i, text, directives, r, context, p, log) ==
  IF r.raised # NoError
  THEN Rendered(text, "", directives, r.state, r.raised,
                Append(log, Event("block_failed", p, i)))
  ELSE RenderFrom(tokens, i + 1, text, directives, r.state, context, p,
                  Append(log, Event("block_done", p, i)))

\* a _render_content that goes on with the next node although the branch of
\* a conditional took a jump
AfterConditionalOn(tokens, i, text, directives, r, context, p) ==
  RenderFrom(tokens, i + 1, text \o r.text, directives \o r.directives, r.state,
             context, p, r.log)

\* after a conditional node: r is what _render_conditional answered
AfterConditional(tokens, i, text, directives, r, context, p) ==
  IF r.jump # ""
  THEN Rendered(text \o r.text, r.jump, directives \o r.directives, r.state,
                NoError, r.log)
  ELSE RenderFrom(tokens, i + 1, text \o r.text, directives \o r.directives,
                  r.state, context, p, r.log)

\* after a for_loop node: r is what _render_loop answered, a tuple of r.arity
\* values that _render_content unpacks into three names
AfterLoop(tokens, i, text, directives, r, context, p) ==
  IF r.arity # 3
  THEN Rendered(text, "", directives, r.out.state, Error("ValueError", "unpack"),
                r.out.log)
  ELSE IF r.out.jump # ""
  THEN Rendered(text \o r.out.text, r.out.jump, directives \o r.out.directives,
                r.out.state, NoError, r.out.log)
  ELSE RenderFrom(tokens, i + 1, text \o r.out.text,
                  directives \o r.out.directives, r.out.state, context, p, r.out.log)

\* the loop of _render_content from token i on; a jump target of "" is None
RenderFrom(tokens, i, text, directives, state, context, p, log) ==
  IF i > Len(tokens) THEN Rendered(text, "", directives, state, NoError, log)
  ELSE
    CASE tokens[i].type = "text" ->
           RenderFrom(tokens, i + 1, text \o tokens[i].value, directives, state,
                      context, p, log)
      [] tokens[i].type = "expression" ->
           RenderFrom(tokens, i + 1,
                      text \o Shown(tokens[i], Eval(tokens[i].ast, Merge(context, state))),
                      directives, state, context, p, log)
      [] tokens[i].type = "render_directive" ->
           RenderFrom(tokens, i + 1, text,
                      Append(directives,
                             _process_render_directive(tokens[i], state, context)),
                      state, context, p, log)
      [] tokens[i].type = "input" ->
           RenderFrom(tokens, i + 1, text, Append(directives, tokens[i]), state,
                      context, p, log)
      [] tokens[i].type = "python_block" ->
           AfterBlock(tokens, i, text, directives,
                      _execute_python_block(tokens[i], state, context), context, p, log)
      [] tokens[i].type = "conditional" ->
           AfterConditional(tokens, i, text, directives,
                            _render_conditional(tokens[i], state, context, p, log),
                            context, p)
      [] tokens[i].type = "for_loop" ->
           AfterLoop(tokens, i, text, directives,
                     _render_loop(tokens[i], state, context, p, log), context, p)
      [] tokens[i].type = "jump" ->
           Rendered(text, tokens[i].target, directives, state, NoError, log)
      [] OTHER ->
           RenderFrom(tokens, i + 1, text, directives, state, context, p,
                      Append(log, Event("node_skipped", p, i)))

\* _render_content
_render_content(content_tokens, state, context, p, log) ==
  RenderFrom(content_tokens, 1, "", <<>>, state, context, p, log)

\* {"type": "choice", **choice}
ChoiceDirective(choice) == Merge([type |-> "choice"], choice)

\* the choices of a branch as directives
BranchChoices(branch) ==
  IF "choices" \in DOMAIN branch
  THEN [k \in 1..Len(branch.choices) |-> ChoiceDirective(branch.choices[k])]
  ELSE <<>>

\* after the content of the taken branch j: r is what _render_content answered
AfterBranch(branches, j, eval_context, r, context, p) ==
  IF r.raised # NoError
  THEN BranchesFrom(branches, j + 1, eval_context, r.state, context, p, r.log)
  ELSE Rendered(r.text, r.jump, r.directives \o BranchChoices(branches[j]),
                r.state, NoError, r.log)

\* a branch whose condition raised ends the call with that exception
TryBranchOrRaise(branches, j, eval_context, c, state, context, p, log) ==
  IF c.cls # ""
  THEN Rendered("", "", <<>>, state, Error("RuntimeError", "condition"), log)
  ELSE IF ~Truthy(c.v)
  THEN BranchesFrom(branches, j + 1, eval_context, state, context, p, log)
  ELSE AfterBranch(branches, j, eval_context,
                   _render_content(branches[j].content, state, context, p,
                                   Append(log, Event("branch", p, j))),
                   context, p)

\* branch j once its condition evaluated to c
TryBranch(branches, j, eval_context, c, state, context, p, log) ==
  IF c.cls # "" \/ ~Truthy(c.v)
  THEN BranchesFrom(branches, j + 1, eval_context, state, context, p, log)
  ELSE AfterBranch(branches, j, eval_context,
                   _render_content(branches[j].content, state, context, p,
                                   Append(log, Event("branch", p, j))),
                   context, p)

\* the loop of _render_conditional from branch j on; eval_context is the
\* context the method builds once on entry
BranchesFrom(branches, j, eval_context, state, context, p, log) ==
  IF j > Len(branches) THEN Rendered("", "", <<>>, state, NoError, log)
  ELSE TryBranch(branches, j, eval_context,
                 Eval(branches[j].condition, eval_context), state, context, p,
                 Append(log, Event("cond", p, j)))

\* _render_conditional
_render_conditional(conditional, state, context, p, log) ==
  BranchesFrom(conditional.branches, 1, Merge(context, state), state, context, p, log)

\* the rendered text of a choice: a string stays, a token list is rendered
ChoiceText(choice, state, context, p) ==
  IF choice.text.fmt = "str" THEN choice.text.s
  ELSE _render_content(choice.text.toks, state, context, p, <<>>).text

\* [v.strip() for v in variable.split(",")]
Variables(variable) ==
  CASE variable = "item" -> <<"item">>
    [] variable = "count, v" -> <<"count", "v">>
    [] OTHER -> <<variable>>

\* a name that state does not bind
Absent == [t |-> "absent", v |-> 0]

\* the bindings of the names in state
Bindings(names, state) ==
  [var \in {names[k] : k \in 1..Len(names)} |->
     IF var \in DOMAIN state THEN state[var] ELSE Absent]

\* what _render_loop returns: a tuple of arity values
LoopResult(arity, out) == [arity |-> arity, out |-> out]

\* the return of the except clause of _render_loop: (error_msg, None)
LoopFailed(loop, msg, state, p, log) ==
  LoopResult(2, Rendered("{ERROR: Loop failed - " \o msg \o "}", "", <<>>, state,
                         NoError,
                         Append(log, Event("loop_end", p,
                                           Bindings(Variables(loop.variable), state)))))

\* original_values: self.state.get(var) of each loop variable
Originals(variables, state) ==
  [var \in {variables[k] : k \in 1..Len(variables)} |->
     IF var \in DOMAIN state THEN state[var] ELSE PyNone]

RECURSIVE Unpacked(_, _, _, _)
\* tuple unpacking of item into the variables from the i-th on
Unpacked(variables, i, item, state) ==
  IF i > Len(variables) THEN state
  ELSE Unpacked(variables, i + 1, item,
                Put(state, variables[i],
                    IF item.t = "list" /\ i <= Len(item.v) THEN item.v[i]
                    ELSE PyNone))

\* the state with the loop variables bound to item
Bound(loop, item, state) ==
  IF Len(Variables(loop.variable)) > 1
  THEN Unpacked(Variables(loop.variable), 1, item, state)
  ELSE Put(state, loop.variable, item)

\* the loop that restores original_values: a value of None counts as absent
Restore(original_values, state) ==
  [var \in {x \in (DOMAIN state) \cup (DOMAIN original_values) :
              x \in DOMAIN original_values => original_values[x] # PyNone} |->
     IF var \in DOMAIN original_values THEN original_values[var] ELSE state[var]]

\* the choices of the loop as directives, their text rendered in this iteration
LoopChoices(loop, state, context, p) ==
  IF "choices" \in DOMAIN loop
  THEN [k \in 1..Len(loop.choices) |->
          ChoiceDirective([loop.choices[k] EXCEPT
                             !.text = StrText(ChoiceText(loop.choices[k], state,
                                                         context, p))])]
  ELSE <<>>

\* the end of one iteration: directives and restored holds what it left
Iterated(loop, collection, k, text, jump, directives, restored, context, p, log) ==
  IF jump # ""
  THEN LoopResult(3, Rendered(text, jump, directives, restored, NoError,
                              Append(log, Event("loop_end", p,
                                                Bindings(Variables(loop.variable),
                                                         restored)))))
  ELSE ItemsFrom(loop, collection, k + 1, text, directives, restored, context, p, log)

\* after the body of iteration k: r is what _render_content answered
AfterBody(loop, collection, k, text, directives, original_values, r, context, p) ==
  IF r.raised # NoError
  THEN LoopFailed(loop, r.raised.kind, r.state, p, r.log)
  ELSE Iterated(loop, collection, k, text \o r.text, r.jump,
                directives \o r.directives \o LoopChoices(loop, r.state, context, p),
                Restore(original_values, r.state), context, p, r.log)

\* the iterations of _render_loop from item k on
ItemsFrom(loop, collection, k, text, directives, state, context, p, log) ==
  IF k > Len(collection)
  THEN LoopResult(3, Rendered(text, "", directives, state, NoError,
                              Append(log, Event("loop_end", p,
                                                Bindings(Variables(loop.variable),
                                                         state)))))
  ELSE AfterBody(loop, collection, k, text, directives,
                 Originals(Variables(loop.variable), state),
                 _render_content(loop.content, Bound(loop, collection[k], state),
                                 context, p, Append(log, Event("item", p, k))),
                 context, p)

\* _render_loop once the collection expression evaluated to c; the
\* collections of the story are lists or values that cannot be iterated
Collected(loop, c, state, context, p, log) ==
  IF c.cls # "" THEN LoopFailed(loop, c.msg, state, p, log)
  ELSE IF c.v.t # "list"
  THEN LoopFailed(loop, "'" \o TypeName(c.v) \o "' object is not iterable", state,
                  p, log)
  ELSE ItemsFrom(loop, c.v.v, 1, "", <<>>, state, context, p, log)

\* _render_loop
_render_loop(loop, state, context, p, log) ==
  IF loop.variable = "" \/ loop.collection.src = ""
  THEN LoopResult(3, Rendered("", "", <<>>, state, NoError, log))
  ELSE Collected(loop, Eval(loop.collection, Merge(context, state)), state, context,
                 p, Append(log, Event("loop", p,
                                      Bindings(Variables(loop.variable), state))))

(***************************************************************************)
(* The story the engine runs.  Choices written with parse_choice_line are  *)
(* in the new format (tokenized text), choices written with OldChoice are  *)
(* in the old format (plain string text) that the engine also accepts.     *)
(***************************************************************************)
\* parse_content_line on a line without interpolation
parse_content_line(line) == <<Text(line)>>

\* parse_choice_line of the modular compiler
parse_choice_line(text, target, condition, sticky) ==
  [text |-> TokText(parse_content_line(text)), target |-> target,
   condition |-> condition, sticky |-> sticky, tags |-> <<>>]

\* parse_choice_line of the single-file compiler
OldChoice(text, target, condition, sticky) ==
  [text |-> StrText(text), target |-> target, condition |-> condition,
   sticky |-> sticky, tags |-> <<>>]

Passage(id, execute, content, choices) ==
  [id |-> id, content |-> content, choices |-> choices, execute |-> execute,
   tags |-> <<>>]

\* a passage with @input lines: current_passage["input_directives"]
WithInputs(passage, input_directives) ==
  Merge(passage, [input_directives |-> input_directives])

Count == Name("count")
One == Lit(I(1), "1")
CountUp == SetVar("count", BinOp(Count, "+", One))

Passages ==
  [Start |-> Passage("Start",
       <<SetVar("count", Lit(I(0), "0"))>>,
       <<Text("Start.")>>,
       <<parse_choice_line("Take", "Room", NoCondition, FALSE),
         OldChoice("Key", "Bad", NoCondition, FALSE),
         parse_choice_line("Look", "Room", NoCondition, TRUE),
         parse_choice_line("Chain", "A", NoCondition, TRUE)>>),
   Room |-> Passage("Room",
       <<CountUp>>,
       <<Text("Room "), Expr(Count)>>,
       <<parse_choice_line("Back", "Start", NoCondition, TRUE),
         OldChoice("Deep", "Odd", BinOp(Count, ">", One), TRUE),
         parse_choice_line("Shop", "Shop", NoCondition, TRUE)>>),
   A |-> Passage("A",
       <<CountUp>>,
       <<Text("a"), Jump("B"), Text("never")>>,
       <<parse_choice_line("Skipped", "Start", NoCondition, TRUE)>>),
   B |-> Passage("B",
       <<CountUp>>,
       <<Text("b"), Jump("C")>>,
       <<>>),
   C |-> Passage("C",
       <<CountUp>>,
       <<Text("c "), Expr(Count)>>,
       <<parse_choice_line("Home", "Start", NoCondition, TRUE),
         parse_choice_line("Loop", "L1", NoCondition, TRUE)>>),
   L1 |-> Passage("L1",
       <<>>,
       <<Text("l1"), Jump("L2")>>,
       <<>>),
   L2 |-> Passage("L2",
       <<PythonBlock(<<Assign("count", Lit(I(0), "0"))>>)>>,
       <<Jump("L1")>>,
       <<>>),
   Bad |-> Passage("Bad",
       <<CountUp,
         SetVar("x", Name("missing")),
         SetVar("count", Lit(I(0), "0"))>>,
       <<Text("bad")>>,
       <<>>),
   Odd |-> Passage("Odd",
       <<SetVar("count", BinOp(One, "+", Lit(S("a"), "'a'")))>>,
       <<Text("odd "), Expr(Count)>>,
       <<parse_choice_line("Home", "Start", NoCondition, TRUE)>>),
   Py |-> Passage("Py",
       <<PythonBlock(<<Assign("count", Lit(I(0), "0")),
                       Assign("v", BinOp(One, "//", Lit(I(0), "0")))>>)>>,
       <<Text("py")>>,
       <<>>),
   Shop |-> Passage("Shop",
       <<PythonStatement(<<Assign("gold", Lit(I(5), "5"))>>)>>,
       <<Text("Gold: "), Expr(Name("gold")),
         Conditional(<<Branch(Lit(B(TRUE), "True"),
                              <<SetVar("paid", One), Text(" paid")>>)>>)>>,
       <<parse_choice_line("Back", "Room", NoCondition, TRUE)>>),
   Lost |-> Passage("Lost",
       <<>>,
       <<Text("lost"), Jump("Nowhere")>>,
       <<>>),
   Cond |-> Passage("Cond",
       <<>>,
       <<Text("c:"),
         Conditional(<<Branch(BinOp(Count, ">", One), <<Text("big")>>),
                       Branch(Name("missing"), <<Text("never")>>),
                       Branch(Lit(B(TRUE), "True"),
                              <<PythonBlock(<<Assign("v", BinOp(One, "//",
                                                                 Lit(I(0), "0")))>>),
                                Text("then")>>),
                       Branch(Lit(B(TRUE), "True"), <<Text("else")>>)>>),
         Text(".")>>,
       <<>>),
   Quiet |-> Passage("Quiet",
       <<>>,
       <<Text("n:"),
         Conditional(<<Branch(BinOp(Count, "<", Lit(I(0), "0")), <<Text("neg")>>),
                       Branch(Name("missing"), <<Jump("Start")>>)>>),
         Text(".")>>,
       <<>>),
   Each |-> Passage("Each",
       <<SetVar("item", Lit(PyNone, "None"))>>,
       <<Text("each:"),
         ForLoop("item", Lit(List(<<I(1), I(2)>>), "[1, 2]"),
                 <<Expr(Name("item")), Text(";")>>)>>,
       <<>>),
   Pairs |-> Passage("Pairs",
       <<>>,
       <<Text("pairs:"),
         ForLoop("count, v", Lit(List(<<List(<<I(1), I(2)>>)>>), "[[1, 2]]"),
                 <<Expr(Count), Text("-"), Expr(Name("v")), Text(";")>>)>>,
       <<>>),
   D1 |-> WithInputs(Passage("D1",
       <<>>,
       <<Text("d1"), RenderDirective("card", <<Count>>), Jump("D2")>>,
       <<>>), <<InputDirective("name")>>),
   D2 |-> WithInputs(Passage("D2",
       <<>>,
       <<Text("d2"), RenderDirective("card", <<One>>)>>,
       <<>>), <<InputDirective("age")>>),
   Err |-> Passage("Err",
       <<>>,
       <<Text("e:"), Expr(Name("missing")),
         Text("|"), Expr(BinOp(One, "+", Lit(S("a"), "'a'"))),
         Text("|"), Expr(Attr(Count, "nope")),
         Text("|"), Expr(BinOp(One, "//", Lit(I(0), "0"))),
         Text("|"), Expr(BinOp(One, "?", One)),
         Text("|"), Expr(Count), Text("|end")>>,
       <<>>),
   Hop |-> Passage("Hop",
       <<>>,
       <<Text("hop "),
         Conditional(<<Branch(Lit(B(TRUE), "True"),
                              <<Text("in "), RenderDirective("card", <<One>>),
                                Jump("Start"),
                                PythonBlock(<<Assign("late", One)>>),
                                Text("never")>>),
                       Branch(Lit(B(TRUE), "True"), <<Text("else")>>)>>),
         PythonBlock(<<Assign("late", One)>>),
         RenderDirective("card", <<Count>>),
         Text("after")>>,
       <<>>),
   Skip |-> Passage("Skip",
       <<>>,
       <<Text("skip "),
         ForLoop("item", Lit(List(<<I(1), I(2)>>), "[1, 2]"),
                 <<Expr(Name("item")), RenderDirective("card", <<Name("item")>>),
                   Jump("Start"),
                   PythonBlock(<<Assign("late", One)>>), Text("never")>>),
         PythonBlock(<<Assign("late", One)>>),
         Text("after")>>,
       <<>>),
   NoColl |-> Passage("NoColl",
       <<>>,
       <<Text("f:"),
         ForLoop("item", Name("missing"), <<Text("x")>>),
         Text("after")>>,
       <<>>),
   BadBody |-> Passage("BadBody",
       <<>>,
       <<Text("g:"),
         ForLoop("item", Lit(List(<<I(1), I(2)>>), "[1, 2]"),
                 <<PythonBlock(<<Assign("v", BinOp(One, "//", Lit(I(0), "0")))>>),
                   Text("x")>>),
         Text("after")>>,
       <<>>),
   Else |-> Passage("Else",
       <<>>,
       <<Text("e:"),
         Conditional(<<Branch(Name("missing"), <<Text("never")>>),
                       Branch(BinOp(One, "//", Lit(I(0), "0")), <<Text("never")>>),
                       Branch(Lit(B(TRUE), "True"), <<Text("else")>>)>>),
         Text(".")>>,
       <<>>),
   Script |-> Passage("Script",
       <<PythonBlock(<<Assign("runs", Lit(I(0), "0"))>>)>>,
       <<Text("s:"),
         Conditional(<<Branch(Lit(B(FALSE), "False"),
                              <<PythonBlock(<<Assign("runs", Lit(I(9), "9"))>>)>>),
                       Branch(Lit(B(TRUE), "True"),
                              <<PythonBlock(<<Assign("runs",
                                                     BinOp(Name("runs"), "+", One))>>)>>),
                       Branch(Lit(B(TRUE), "True"),
                              <<PythonBlock(<<Assign("runs", Lit(I(9), "9"))>>)>>)>>),
         ForLoop("item", Lit(List(<<I(1), I(2)>>), "[1, 2]"),
                 <<PythonBlock(<<Assign("runs", BinOp(Name("runs"), "+", One))>>)>>),
         Expr(Name("runs"))>>,
       <<>>)]

\* the compiled document
Story ==
  [version |-> "0.1.0", initial_passage |-> "Start",
   metadata |-> [title |-> "Model Story"],
   imports |-> <<[src |-> "from game import Card", name |-> "Card",
                  value |-> Class("Card")]>>,
   passages |-> Passages]

\* passage ids a caller may pass to goto: the story's and one that is not
PassageIds == DOMAIN Passages
GotoArgs ==
  {"Start", "Room", "A", "B", "C", "L1", "L2", "Bad", "Odd", "Py", "Shop", "Lost",
   "Nowhere"}

\* the passages a host visits to see conditionals, loops, directives and
\* interpolation, with the two that set the counter
RenderArgs ==
  {"Start", "Room", "Cond", "Quiet", "Each", "Pairs", "D1", "D2", "Err", "Hop", "Skip",
   "NoColl", "BadBody", "Else", "Script"}

\* the host context passed to the constructor
HostContext == [hero |-> S("Ann")]

(***************************************************************************)
(* The engine.  An engine value e holds the fields of one BardEngine; each *)
(* method answers the engine after the call, the exception raised (or      *)
(* NoError), the value returned and the record of what the call did.       *)
(***************************************************************************)
\* current_passage_id before the first goto
NonePassage == "None"

PassageOutput(content, choices, passage_id, render_directives, input_directives, jump_target) ==
  [content |-> content, choices |-> choices, passage_id |-> passage_id,
   render_directives |-> render_directives,
   input_directives |-> input_directives, jump_target |-> jump_target]

\* _current_output before the first goto
NoOutput == PassageOutput("", <<>>, NonePassage, <<>>, <<>>, "")

Result(eng, raised, returned, log) ==
  [eng |-> eng, raised |-> raised, returned |-> returned, log |-> log]

\* choice.get("sticky", True)
Sticky(choice) == IF "sticky" \in DOMAIN choice THEN choice.sticky ELSE TRUE

\* bool(result) of a choice condition that evaluated to r; an exception hides
ConditionHolds(r) == r.cls = "" /\ Truthy(r.v)

\* _is_choice_available
_is_choice_available(e, choice) ==
  IF ~Sticky(choice)
     /\ ChoiceId(e.current_passage_id, choice.text, choice.target) \in e.used_choices
  THEN FALSE
  ELSE IF choice.condition.op = "none" THEN TRUE
  ELSE ConditionHolds(Eval(choice.condition, Merge(e.context, e.state)))

\* _render_choice_text
_render_choice_text(e, choice) ==
  [choice EXCEPT !.text =
     StrText(ChoiceText(choice, e.state, e.context, e.current_passage_id))]

\* the directives of the given types, in order
OfType(directives, types) ==
  LET Test(d) == d.type \in types IN SelectSeq(directives, Test)

\* the choices of all_choices that are available, with their text rendered
AvailableChoices(e, all_choices) ==
  LET Available(choice) == _is_choice_available(e, choice)
      Text1(shown) == [k \in 1..Len(shown) |-> _render_choice_text(e, shown[k])]
  IN Text1(SelectSeq(all_choices, Available))

\* passage.get("input_directives", [])
PassageInputs(passage) ==
  IF "input_directives" \in DOMAIN passage THEN passage.input_directives ELSE <<>>

\* the rest of _render_passage once the content is rendered to r; e is the
\* engine with the state the rendering left
OutputOf(e, passage_id, r) ==
  [output |-> PassageOutput(
                r.text,
                AvailableChoices(e, Story.passages[passage_id].choices
                                      \o OfType(r.directives, {"choice"})),
                passage_id,
                OfType(r.directives, {"render_directive"}),
                OfType(r.directives, {"input"})
                  \o PassageInputs(Story.passages[passage_id]),
                r.jump),
   eng |-> e, raised |-> r.raised, log |-> r.log]

\* the engine with the state a rendering or a command list left
WithState(e, r) == [e EXCEPT !.state = r.state]

\* _render_passage with its content rendered to r
RenderedPassage(e, passage_id, r) == OutputOf(WithState(e, r), passage_id, r)

\* _render_passage: the output, the engine after rendering and the error raised
_render_passage(e, passage_id, log) ==
  IF passage_id \notin DOMAIN Story.passages
  THEN [output |-> NoOutput, eng |-> e,
        raised |-> Error("ValueError", "passage_not_found"), log |-> log]
  ELSE RenderedPassage(e, passage_id,
         _render_content(Story.passages[passage_id].content, e.state, e.context,
                         passage_id, Append(log, Event("render", passage_id, 0))))

\* _execute_passage with its commands run to r
Executed(e, r) == [eng |-> WithState(e, r), raised |-> r.raised, log |-> r.log]

\* _execute_passage: the engine after the commands and the error raised
_execute_passage(e, passage_id, log) ==
  IF passage_id \notin DOMAIN Story.passages
  THEN [eng |-> e, raised |-> Error("ValueError", "passage_not_found"), log |-> log]
  ELSE Executed(e, _execute_commands(Story.passages[passage_id].execute, e.state,
                                     e.context, passage_id,
                                     Append(log, Event("execute", passage_id, 0))))

RECURSIVE JoinBlank(_)
\* "\n\n".join(parts)
JoinBlank(parts) ==
  IF parts = <<>> THEN ""
  ELSE IF Len(parts) = 1 THEN parts[1]
  ELSE parts[1] \o "\n\n" \o JoinBlank(Tail(parts))

\* a loop test that never finds current_id among the passages entered
InVisitedNever(current_id, visited) == FALSE

\* the test that opens each round of goto's loop: current_id in visited
InVisited(current_id, visited) == \E k \in 1..Len(visited) : visited[k] = current_id

\* an accumulation that keeps only the text of the passage rendered last
AccumulatedLast(accumulated_content, output) ==
  IF output.content # "" THEN <<output.content>> ELSE accumulated_content

\* accumulated_content after a passage rendered to output
Accumulated(accumulated_content, output) ==
  IF output.content # "" THEN Append(accumulated_content, output.content)
  ELSE accumulated_content

\* an end of goto that returns the final output without caching it
FinishUncached(e, output, content, directives, log) ==
  Result(e, NoError,
         PassageOutput(JoinBlank(content), output.choices, output.passage_id,
                       directives, output.input_directives, ""),
         log)

\* the end of goto: the final output is built, cached and returned
Finish(e, output, content, directives, log) ==
  LET final_output == PassageOutput(JoinBlank(content), output.choices,
                                    output.passage_id, directives,
                                    output.input_directives, "")
  IN Result([e EXCEPT !.current_output = final_output], NoError, final_output, log)

RECURSIVE GotoLoop(_, _, _, _, _, _, _)

\* one round of goto's loop after _render_passage answered r
AfterRender(r, current_id, visited, accumulated_content, accumulated_directives, fuel) ==
  IF r.raised # NoError THEN Result(r.eng, r.raised, NoOutput, r.log)
  ELSE IF r.output.jump_target # ""
  THEN GotoLoop(r.eng, r.output.jump_target, Append(visited, current_id),
                Accumulated(accumulated_content, r.output),
                accumulated_directives \o r.output.render_directives,
                Append(r.log, Event("jump", r.output.jump_target, 0)), fuel - 1)
  ELSE Finish(r.eng, r.output, Accumulated(accumulated_content, r.output),
              accumulated_directives \o r.output.render_directives, r.log)

\* one round of goto's loop after _execute_passage answered x
AfterExecute(x, current_id, visited, accumulated_content, accumulated_directives, fuel) ==
  IF x.raised # NoError THEN Result(x.eng, x.raised, NoOutput, x.log)
  ELSE AfterRender(_render_passage(x.eng, current_id, x.log), current_id, visited,
                   accumulated_content, accumulated_directives, fuel)

\* the while-loop of goto; visited is kept in the order of entry and fuel
\* counts the rounds left before the call is reported as running forever
GotoLoop(e, current_id, visited, accumulated_content, accumulated_directives, log, fuel) ==
  IF fuel = 0 THEN Result(e, Error("Diverges", "goto"), NoOutput, log)
  ELSE IF InVisited(current_id, visited)
  THEN Result(e, Error("RuntimeError", "jump_loop"), NoOutput, log)
  ELSE AfterExecute(
         _execute_passage([e EXCEPT !.current_passage_id = current_id], current_id,
                          Append(log, Event("enter", current_id, 0))),
         current_id, visited, accumulated_content, accumulated_directives, fuel)

\* goto
goto(e, passage_id) ==
  IF passage_id \notin DOMAIN Story.passages
  THEN Result(e, Error("ValueError", "unknown_passage"), NoOutput, <<>>)
  ELSE GotoLoop(e, passage_id, <<>>, <<>>, <<>>, <<>>, MaxChain)

\* a current that renders the current passage again instead of reading the cache
current_rerun(e) == goto(e, e.current_passage_id)

\* current
current(e) == Result(e, NoError, e.current_output, <<>>)

\* the engine after choose recorded chosen_choice if it is a one-time choice
Tracked(e, current_output, chosen_choice) ==
  IF ~Sticky(chosen_choice)
  THEN [e EXCEPT !.used_choices =
          @ \cup {ChoiceId(current_output.passage_id, chosen_choice.text,
                           chosen_choice.target)}]
  ELSE e

\* choose on the cached output current_output
ChooseFrom(e, current_output, choice_index) ==
  IF choice_index < 0 \/ choice_index >= Len(current_output.choices)
  THEN Result(e, Error("IndexError", "choice_index"), NoOutput, <<>>)
  ELSE goto(Tracked(e, current_output, current_output.choices[choice_index + 1]),
            current_output.choices[choice_index + 1].target)

\* a choose that filters the choices of the current passage again
choose_refiltered(e, choice_index) ==
  ChooseFrom(e, _render_passage(e, e.current_passage_id, <<>>).output, choice_index)

\* choose
choose(e, choice_index) == ChooseFrom(e, current(e).returned, choice_index)

\* self.state['_inputs'], made empty when missing
Inputs(e) == IF "_inputs" \in DOMAIN e.state THEN e.state["_inputs"].v ELSE EmptyMap

\* the names whose object a call of op updates in place rather than rebinds:
\* self.state['_inputs'].update(input_data)
UpdatedInPlace(op) == IF op = "submit_inputs" THEN {"_inputs"} ELSE {}

\* a submit_inputs that keeps the submitted values only
submit_inputs_replacing(e, input_data) ==
  Result([e EXCEPT !.state = Put(e.state, "_inputs", Dict(input_data))],
         NoError, PyNone, <<>>)

\* submit_inputs
submit_inputs(e, input_data) ==
  Result([e EXCEPT !.state = Put(e.state, "_inputs",
                                 Dict(Merge(Inputs(e), input_data)))],
         NoError, PyNone, <<>>)

\* a reset that leaves used_choices as it is
reset_nothing(e) == Result(e, NoError, PyNone, <<>>)

\* reset_one_time_choices
reset_one_time_choices(e) ==
  Result([e EXCEPT !.used_choices = {}], NoError, PyNone, <<>>)

(***************************************************************************)
(* Save and load.                                                          *)
(***************************************************************************)
RECURSIVE _serialize_value(_)
\* _serialize_value: a class becomes None, primitives pass, dicts recurse
_serialize_value(value) ==
  CASE value.t = "class" -> PyNone
    [] value.t = "dict" -> Dict([k \in DOMAIN value.v |-> _serialize_value(value.v[k])])
    [] OTHER -> value

\* _serialize_state
_serialize_state(state) == [key \in DOMAIN state |-> _serialize_value(state[key])]

RECURSIVE _deserialize_value(_)
\* _deserialize_value: primitives pass, plain dicts recurse
_deserialize_value(value) ==
  IF value.t = "dict"
  THEN Dict([k \in DOMAIN value.v |-> _deserialize_value(value.v[k])])
  ELSE value

\* _deserialize_state
_deserialize_state(state) == [key \in DOMAIN state |-> _deserialize_value(state[key])]

\* a save file that is a mapping, and one that is not
SaveDict(d) == [isdict |-> TRUE, d |-> d, shared |-> {}]
NotADict == [isdict |-> FALSE, d |-> EmptyMap, shared |-> {}]

RECURSIVE JsonDumps(_)
\* json.dumps(value) succeeds: a primitive, or a dict of such values
JsonDumps(value) ==
  CASE value.t = "class" -> FALSE
    [] value.t = "dict" -> \A k \in DOMAIN value.v : JsonDumps(value.v[k])
    [] OTHER -> TRUE

\* the names whose serialized value is the very object state holds: for a
\* value json.dumps accepts _serialize_value returns the value itself
SharedObjects(state) ==
  {key \in DOMAIN state : state[key].t = "dict" /\ JsonDumps(state[key])}

\* the dict save_state returns, with the names whose objects it shares
Snapshot(d, state) == [isdict |-> TRUE, d |-> d, shared |-> SharedObjects(state)]

\* save_data.get(key, default)
Get(d, key, default) == IF key \in DOMAIN d THEN d[key] ELSE default

\* save_state; the list of used choices is kept as the set of its elements
save_state(e) ==
  Result(e, NoError,
         Snapshot([version |-> "0.1.0",
                   story_version |-> Get(Story.metadata, "version", "unknown"),
                   story_name |-> Get(Story.metadata, "title", "unknown"),
                   story_id |-> Get(Story.metadata, "story_id", "unknown"),
                   current_passage_id |-> e.current_passage_id,
                   state |-> _serialize_state(e.state),
                   used_choices |-> e.used_choices],
                  e.state),
         <<>>)

\* load_state returns nothing: r is what its closing goto answered
Loaded(r) == Result(r.eng, r.raised, PyNone, r.log)

\* the engine with variables and used choices restored from the save
Restored(e, d) ==
  [e EXCEPT !.state = _deserialize_state(Get(d, "state", EmptyMap)),
            !.used_choices = Get(d, "used_choices", {})]

\* a load_state that restores the variables before it checks the target passage
load_state_restore_first(e, save_data) ==
  IF ~save_data.isdict
  THEN Result(e, Error("ValueError", "not_a_dictionary"), PyNone, <<>>)
  ELSE IF "version" \notin DOMAIN save_data.d
  THEN Result(e, Error("ValueError", "missing_version"), PyNone, <<>>)
  ELSE IF Get(save_data.d, "current_passage_id", "Start") \notin DOMAIN Story.passages
  THEN Result(Restored(e, save_data.d), Error("ValueError", "unknown_passage"),
              PyNone, <<>>)
  ELSE Loaded(goto(Restored(e, save_data.d),
                   Get(save_data.d, "current_passage_id", "Start")))

\* a load_state that restores the save and names its passage without navigating
load_state_in_place(e, save_data) ==
  IF ~save_data.isdict
  THEN Result(e, Error("ValueError", "not_a_dictionary"), PyNone, <<>>)
  ELSE IF "version" \notin DOMAIN save_data.d
  THEN Result(e, Error("ValueError", "missing_version"), PyNone, <<>>)
  ELSE IF Get(save_data.d, "current_passage_id", "Start") \notin DOMAIN Story.passages
  THEN Result(e, Error("ValueError", "unknown_passage"), PyNone, <<>>)
  ELSE Result([Restored(e, save_data.d) EXCEPT
                 !.current_passage_id = Get(save_data.d, "current_passage_id", "Start")],
              NoError, PyNone, <<>>)

\* load_state
load_state(e, save_data) ==
  IF ~save_data.isdict
  THEN Result(e, Error("ValueError", "not_a_dictionary"), PyNone, <<>>)
  ELSE IF "version" \notin DOMAIN save_data.d
  THEN Result(e, Error("ValueError", "missing_version"), PyNone, <<>>)
  ELSE IF Get(save_data.d, "current_passage_id", "Start") \notin DOMAIN Story.passages
  THEN Result(e, Error("ValueError", "unknown_passage"), PyNone, <<>>)
  ELSE Loaded(goto(Restored(e, save_data.d),
                   Get(save_data.d, "current_passage_id", "Start")))

(***************************************************************************)
(* Construction.                                                           *)
(***************************************************************************)
RECURSIVE ImportsFrom(_, _, _)
\* the loop of _execute_imports over the names the import statements bind
ImportsFrom(imports, i, e) ==
  IF i > Len(imports) THEN e
  ELSE LET imp == imports[i] IN
       IF StartsWithUnderscore(imp.name) THEN ImportsFrom(imports, i + 1, e)
       ELSE ImportsFrom(imports, i + 1,
              [e EXCEPT !.state = Put(@, imp.name, imp.value),
                        !.context = IF imp.value.t = "class"
                                    THEN Put(@, imp.name, imp.value) ELSE @])

\* _execute_imports
_execute_imports(e) == ImportsFrom(Story.imports, 1, e)

\* the fields __init__ sets before it runs the imports
Blank(context) ==
  [current_passage_id |-> NonePassage,
   state |-> [k \in {"_inputs"} |-> Dict(EmptyMap)],
   used_choices |-> {},
   context |-> context,
   current_output |-> NoOutput]

\* __init__ after the imports: validation, then goto of the initial passage
Validated(story_data, e) ==
  IF story_data.initial_passage = ""
  THEN Result(e, Error("ValueError", "no_initial_passage"), PyNone, <<>>)
  ELSE IF story_data.initial_passage \notin DOMAIN story_data.passages
  THEN Result(e, Error("ValueError", "initial_not_found"), PyNone, <<>>)
  ELSE goto(e, story_data.initial_passage)

\* __init__
Construct(context) == Validated(Story, _execute_imports(Blank(context)))

\* BardEngine(story_data, context) for a document the host made
BardEngine(story_data, context) ==
  Validated(story_data, ImportsFrom(story_data.imports, 1, Blank(context)))

(***************************************************************************)
(* The compiler.  A source is the list of its lines; the lines of the      *)
(* model are passage headers, @start directives and lines of plain text,   *)
(* so no passage holds a conditional or a blank line, and                  *)
(* _cleanup_whitespace and _trim_trailing_newlines leave the content as it *)
(* is.  compiler/parser.py is the parse the package exports,               *)
(* compiler/parsing/core.py the parse of the modular compiler.             *)
(***************************************************************************)
MaxLines == 4
MaxBody == 4

Header(name) == [kind |-> "header", name |-> name, value |-> ""]
StartLine(name) == [kind |-> "start", name |-> name, value |-> ""]
TextLine(value) == [kind |-> "text", name |-> "", value |-> value]
\* a line of text that ends with the glue operator: value is the text before it
GlueLine(value) == [kind |-> "glue", name |-> "", value |-> value]

\* the lines a source is written with
SourceLines ==
  {Header("Start"), Header("A"), Header("B"), StartLine("A"), StartLine("Z"),
   TextLine("x")}

\* sorted() of the passage names of the model
NameOrder == <<"A", "B", "Start">>

\* a dict of passages: its keys in insertion order and the value at each key
NoPassages == [keys |-> <<>>, at |-> EmptyMap]

\* the locals of parse before the first line
NoLines ==
  [passages |-> NoPassages, passage_locations |-> EmptyMap, current_passage |-> "",
   explicit_start |-> "", block_stack |-> <<>>, raised |-> NoError, at |-> 0]

\* passages[passage_name] = current_passage: a key the dict holds keeps its place
SetPassage(passages, passage_name, passage) ==
  [keys |-> IF passage_name \in DOMAIN passages.at THEN passages.keys
            ELSE Append(passages.keys, passage_name),
   at |-> Put(passages.at, passage_name, passage)]

\* a passage header at line i (1-indexed); parser.py keeps no passage_locations
AtHeader(st, passage_name, i) ==
  [st EXCEPT !.passages = SetPassage(@, passage_name,
                                     Passage(passage_name, <<>>, <<>>, <<>>)),
             !.passage_locations =
               Put(@, passage_name,
                   Append(IF passage_name \in DOMAIN @ THEN @[passage_name] ELSE <<>>,
                          i)),
             !.current_passage = passage_name]

\* a regular content line: skipped outside a passage
AtText(st, value) ==
  IF st.current_passage = "" THEN st
  ELSE [st EXCEPT !.passages.at[st.current_passage].content =
                     @ \o <<Text(value), Text("\n")>>]

RECURSIVE LinesFrom(_, _, _)
\* the loop of parse over the lines from the i-th on
LinesFrom(lines, i, st) ==
  IF i > Len(lines) THEN st
  ELSE LinesFrom(lines, i + 1,
         CASE lines[i].kind = "start" -> [st EXCEPT !.explicit_start = lines[i].name]
           [] lines[i].kind = "header" -> AtHeader(st, lines[i].name, i)
           [] OTHER -> AtText(st, lines[i].value))

\* what _determine_initial_passage answers
Determined(raised, initial_passage) ==
  [raised |-> raised, initial_passage |-> initial_passage]

\* an initial passage taken from @start without looking it up
_determine_initial_passage_unchecked(passages, explicit_start) ==
  IF passages.keys = <<>> THEN Determined(Error("ValueError", "no_passages"), "")
  ELSE IF explicit_start # "" THEN Determined(NoError, explicit_start)
  ELSE IF "Start" \in DOMAIN passages.at THEN Determined(NoError, "Start")
  ELSE Determined(NoError, passages.keys[1])

\* an initial passage that is the first one whenever @start is absent
_determine_initial_passage_first(passages, explicit_start) ==
  IF passages.keys = <<>> THEN Determined(Error("ValueError", "no_passages"), "")
  ELSE IF explicit_start # ""
  THEN IF explicit_start \notin DOMAIN passages.at
       THEN Determined(Error("ValueError", "start_not_found"), "")
       ELSE Determined(NoError, explicit_start)
  ELSE Determined(NoError, passages.keys[1])

\* _determine_initial_passage: @start, else "Start", else the first passage
_determine_initial_passage(passages, explicit_start) ==
  IF passages.keys = <<>> THEN Determined(Error("ValueError", "no_passages"), "")
  ELSE IF explicit_start # ""
  THEN IF explicit_start \notin DOMAIN passages.at
       THEN Determined(Error("ValueError", "start_not_found"), "")
       ELSE Determined(NoError, explicit_start)
  ELSE IF "Start" \in DOMAIN passages.at THEN Determined(NoError, "Start")
  ELSE Determined(NoError, passages.keys[1])

\* the names with more than one location, sorted
Duplicates(passage_locations) ==
  LET Test(name) == name \in DOMAIN passage_locations
                    /\ Len(passage_locations[name]) > 1
  IN SelectSeq(NameOrder, Test)

\* the error of check_duplicate_passages: each name with all its line numbers
DuplicateError(passage_locations, duplicates) ==
  [raised |-> IF duplicates = <<>> THEN NoError
              ELSE Error("ValueError", "duplicate_passages"),
   log |-> [k \in 1..Len(duplicates) |->
              Event("duplicate", duplicates[k], passage_locations[duplicates[k]])]]

\* check_duplicate_passages of compiler/parsing/validation.py
check_duplicate_passages(passage_locations) ==
  DuplicateError(passage_locations, Duplicates(passage_locations))

\* check_duplicate_passages of compiler/parser.py: a placeholder, it passes
parser_check_duplicate_passages(passages) == [raised |-> NoError, log |-> <<>>]

\* the document parse returns
Document(initial_passage, passages) ==
  [version |-> "0.1.0", initial_passage |-> initial_passage, metadata |-> EmptyMap,
   imports |-> <<>>, passages |-> passages.at]

\* what a call of parse answers: the error raised or the document returned
Compiled(raised, returned, log) == [raised |-> raised, returned |-> returned, log |-> log]

\* the end of parser.py's parse: the initial passage, then the duplicate check
Built(st, d, c) ==
  IF d.raised # NoError THEN Compiled(d.raised, PyNone, <<>>)
  ELSE IF c.raised # NoError THEN Compiled(c.raised, PyNone, c.log)
  ELSE Compiled(NoError, Document(d.initial_passage, st.passages), <<>>)

\* the end of core.py's parse: the duplicate check, then the initial passage
Checked(st, c, d) ==
  IF c.raised # NoError THEN Compiled(c.raised, PyNone, c.log)
  ELSE IF d.raised # NoError THEN Compiled(d.raised, PyNone, <<>>)
  ELSE Compiled(NoError, Document(d.initial_passage, st.passages), <<>>)

\* parse of compiler/parser.py once the lines are read
Parsed(st) ==
  Built(st, _determine_initial_passage(st.passages, st.explicit_start),
        parser_check_duplicate_passages(st.passages))

\* the lines of the head of a file: a Python import, a blank line, a comment
ImportLine(name) == [kind |-> "import", name |-> name, value |-> "import " \o name]
BlankLine == [kind |-> "blank", name |-> "", value |-> ""]
CommentLine(value) == [kind |-> "comment", name |-> "", value |-> "# " \o value]

\* the locals of extract_imports before the first line
NoImports ==
  [raised |-> NoError, imports |-> <<>>, remaining_lines |-> <<>>,
   in_imports_section |-> TRUE]

\* the first if of the loop of extract_imports: a blank or comment line is
\* kept with the imports or with the rest
KeptBlank(r, line) ==
  IF line.kind \notin {"blank", "comment"} THEN r
  ELSE IF r.in_imports_section THEN [r EXCEPT !.imports = Append(@, line)]
  ELSE [r EXCEPT !.remaining_lines = Append(@, line)]

\* the second if of the loop of extract_imports, which every line reaches:
\* an import is kept or refused, any other line ends the import section
KeptImport(r, line) ==
  IF line.kind = "import"
  THEN IF r.in_imports_section THEN [r EXCEPT !.imports = Append(@, line)]
       ELSE [r EXCEPT !.raised = Error("ValueError", "import_after_content")]
  ELSE [r EXCEPT !.in_imports_section = FALSE,
                 !.remaining_lines = Append(@, line)]

RECURSIVE ExtractedFrom(_, _, _)
\* the loop of extract_imports over the lines from the i-th on
ExtractedFrom(lines, i, r) ==
  IF i > Len(lines) \/ r.raised # NoError THEN r
  ELSE ExtractedFrom(lines, i + 1, KeptImport(KeptBlank(r, lines[i]), lines[i]))

\* extract_imports of compiler/parser.py
extract_imports(source) == ExtractedFrom(source, 1, NoImports)

\* the document with the import statements the compiler kept
WithImports(c, import_statements) ==
  IF c.raised # NoError THEN c
  ELSE [c EXCEPT !.returned.imports =
                   [k \in 1..Len(import_statements) |-> import_statements[k].value]]

\* parse of compiler/parser.py after extract_imports answered r
ParsedAfter(r) ==
  IF r.raised # NoError THEN Compiled(r.raised, PyNone, <<>>)
  ELSE WithImports(Parsed(LinesFrom(r.remaining_lines, 1, NoLines)), r.imports)

\* bardic.parse(source)
parse(source) == ParsedAfter(extract_imports(source))

(***************************************************************************)
(* Blocks of the modular compiler (compiler/parsing/blocks.py).  A line is *)
(* known by what its stripped text starts with; the lines of the model are *)
(* not indented, so detect_and_strip_indentation returns them as they are, *)
(* and they hold no expression, tag or comment, so parse_content_line      *)
(* answers one text token.                                                 *)
(***************************************************************************)
BlockLine(kind, name) == [kind |-> kind, name |-> name, value |-> ""]

\* the text of a line
Raw(line) ==
  CASE line.kind = "header" -> ":: " \o line.name
    [] line.kind = "start" -> "@start " \o line.name
    [] line.kind \in {"text", "import", "blank", "comment"} -> line.value
    [] line.kind = "glue" -> line.value \o "<>"
    [] line.kind = "if" -> "@if " \o line.name \o ":"
    [] line.kind = "oldif" -> "<<if " \o line.name \o ">>"
    [] line.kind = "elif" -> "@elif " \o line.name \o ":"
    [] line.kind = "else" -> "@else:"
    [] line.kind = "endif" -> "@endif"
    [] line.kind = "endif_colon" -> "@endif:"
    [] line.kind = "for" -> "@for " \o line.name \o " in items:"
    [] line.kind = "oldfor" -> "<<for " \o line.name \o " in items>>"
    [] line.kind = "endfor" -> "@endfor"
    [] line.kind = "py" -> "@py:"
    [] line.kind = "endpy" -> "@endpy"
    [] line.kind = "oldpy" -> "<<py"
    [] line.kind = "close" -> ">>"
    [] line.kind = "jump" -> "-> " \o line.name
    [] OTHER -> "@" \o line.name

\* what an extractor answers: the error raised, or the node and lines_consumed
Extracted(raised, node, lines_consumed) ==
  [raised |-> raised, node |-> node, lines_consumed |-> lines_consumed]

RECURSIVE FirstOf(_, _, _)
\* the index of the first line from i on whose kind is among kinds, 0 if none
FirstOf(lines, i, kinds) ==
  IF i > Len(lines) THEN 0
  ELSE IF lines[i].kind \in kinds THEN i
  ELSE FirstOf(lines, i + 1, kinds)

RECURSIVE JoinLines(_, _, _)
\* "\n".join of the text of the lines i..j
JoinLines(lines, i, j) ==
  IF i > j THEN ""
  ELSE IF i = j THEN Raw(lines[i])
  ELSE Raw(lines[i]) \o "\n" \o JoinLines(lines, i + 1, j)

\* _extract_py_new_syntax with the closer at line k (0: none)
PyNew(lines, start_index, k) ==
  IF k = 0 THEN Extracted(Error("SyntaxError", "unclosed_py"), PyNone, 0)
  ELSE Extracted(NoError, PythonBlock(JoinLines(lines, start_index + 1, k - 1)),
                 k - start_index + 1)

\* _extract_py_old_syntax with the closer at line k (0: none): without a
\* closer the loop ends at the last line and the code is returned
PyOld(lines, start_index, k) ==
  IF k = 0
  THEN Extracted(NoError, PythonBlock(JoinLines(lines, start_index + 1, Len(lines))),
                 Len(lines) - start_index + 2)
  ELSE Extracted(NoError, PythonBlock(JoinLines(lines, start_index + 1, k - 1)),
                 k - start_index + 1)

\* extract_python_block
extract_python_block(lines, start_index) ==
  IF lines[start_index].kind = "oldpy"
  THEN PyOld(lines, start_index, FirstOf(lines, start_index + 1, {"close"}))
  ELSE PyNew(lines, start_index, FirstOf(lines, start_index + 1, {"endpy"}))

\* the tokens of the lines collected before a python block or a nested block:
\* each line parsed as it is written, a newline after each
Flushed(pending) ==
  [k \in 1..(2 * Len(pending)) |->
     IF k % 2 = 1 THEN parse_content_line(Raw(pending[(k + 1) \div 2]))[1]
     ELSE Text("\n")]

RECURSIVE Finalized(_)
\* the tokens of the collected lines when a branch or a loop body ends, and
\* of a content line of a loop body: a line that ends with <> is parsed
\* without it and gets no newline, every other line gets one
Finalized(pending) ==
  IF pending = <<>> THEN <<>>
  ELSE (IF Head(pending).kind = "glue" THEN parse_content_line(Head(pending).value)
        ELSE Append(parse_content_line(Raw(Head(pending))), Text("\n")))
       \o Finalized(Tail(pending))

RECURSIVE CondFrom(_, _, _, _, _, _, _)
RECURSIVE BodyFrom(_, _, _)
RECURSIVE extract_loop_block(_, _)

\* extract_conditional_block after a nested block at line i was extracted to r
CondNested(lines, start_index, i, branches, condition, content, r) ==
  IF r.raised # NoError THEN r
  ELSE CondFrom(lines, start_index, i + r.lines_consumed, branches, condition,
                Append(content, r.node), <<>>)

\* the loop of extract_conditional_block from line i on: branches are the
\* finished branches, condition and content the current branch, pending
\* current_branch_lines
CondFrom(lines, start_index, i, branches, condition, content, pending) ==
  IF i > Len(lines)
  THEN Extracted(Error("SyntaxError", "unclosed_if"), PyNone, start_index)
  ELSE CASE lines[i].kind \in {"py", "oldpy"} ->
              CondNested(lines, start_index, i, branches, condition,
                         content \o Flushed(pending), extract_python_block(lines, i))
         [] lines[i].kind \in {"if", "oldif"} ->
              CondNested(lines, start_index, i, branches, condition,
                         content \o Flushed(pending),
                         CondFrom(lines, i, i + 1, <<>>, lines[i].name, <<>>, <<>>))
         [] lines[i].kind \in {"for", "oldfor"} ->
              CondNested(lines, start_index, i, branches, condition,
                         content \o Flushed(pending), extract_loop_block(lines, i))
         [] lines[i].kind = "endif_colon" ->
              Extracted(Error("SyntaxError", "endif_colon"), PyNone, i)
         [] lines[i].kind = "endif" ->
              Extracted(NoError,
                        Conditional(Append(branches,
                                           Branch(condition,
                                                  content \o Finalized(pending)))),
                        i + 1 - start_index)
         [] lines[i].kind \in {"elif", "else"} ->
              CondFrom(lines, start_index, i + 1,
                       Append(branches, Branch(condition, content \o Finalized(pending))),
                       IF lines[i].kind = "else" THEN "True" ELSE lines[i].name,
                       <<>>, <<>>)
         [] lines[i].kind = "jump" ->
              CondFrom(lines, start_index, i + 1, branches, condition,
                       Append(content, Jump(lines[i].name)), pending)
         [] OTHER ->
              CondFrom(lines, start_index, i + 1, branches, condition, content,
                       Append(pending, lines[i]))

\* extract_conditional_block
extract_conditional_block(lines, start_index) ==
  CondFrom(lines, start_index, start_index + 1, <<>>, lines[start_index].name, <<>>,
           <<>>)

\* the second loop of extract_loop_block after a nested block at line j
BodyNested(dedented_lines, j, content, r) ==
  IF r.raised # NoError THEN r
  ELSE BodyFrom(dedented_lines, j + r.lines_consumed, Append(content, r.node))

\* the second loop of extract_loop_block: the collected lines parsed from j on
BodyFrom(dedented_lines, j, content) ==
  IF j > Len(dedented_lines) THEN Extracted(NoError, content, 0)
  ELSE CASE dedented_lines[j].kind \in {"py", "oldpy"} ->
              BodyNested(dedented_lines, j, content,
                         extract_python_block(dedented_lines, j))
         [] dedented_lines[j].kind \in {"for", "oldfor"} ->
              BodyNested(dedented_lines, j, content,
                         extract_loop_block(dedented_lines, j))
         [] dedented_lines[j].kind \in {"if", "oldif"} ->
              BodyNested(dedented_lines, j, content,
                         extract_conditional_block(dedented_lines, j))
         [] dedented_lines[j].kind = "jump" ->
              BodyFrom(dedented_lines, j + 1,
                       Append(content, Jump(dedented_lines[j].name)))
         [] OTHER ->
              BodyFrom(dedented_lines, j + 1,
                       content \o Finalized(<<dedented_lines[j]>>))

\* the end of extract_loop_block: body is what the second loop answered, k
\* the line of the closer the first loop found (0: none)
LoopEnd(lines, start_index, k, body) ==
  IF body.raised # NoError THEN body
  ELSE IF k = 0
  THEN Extracted(Error("SyntaxError", "unclosed_for"), PyNone, start_index)
  ELSE Extracted(NoError, ForLoop(lines[start_index].name, "items", body.node),
                 k + 1 - start_index)

\* extract_loop_block with the first closer at line k (0: none): the lines
\* up to it are the body
LoopBody(lines, start_index, k) ==
  LoopEnd(lines, start_index, k,
          BodyFrom(SubSeq(lines, start_index + 1,
                          IF k = 0 THEN Len(lines) ELSE k - 1), 1, <<>>))

\* extract_loop_block
extract_loop_block(lines, start_index) ==
  LoopBody(lines, start_index, FirstOf(lines, start_index + 1, {"endfor"}))

\* a regular content line of core.py's parse: one that ends with <> is
\* parsed without it and gets no newline
AtContent(st, line) ==
  IF line.kind = "glue"
  THEN [st EXCEPT !.passages.at[st.current_passage].content =
                     @ \o parse_content_line(line.value)]
  ELSE AtText(st, Raw(line))

RECURSIVE ParsingFrom(_, _, _)

\* parse of core.py after the block at line i was extracted to r
ParsedBlock(lines, i, st, r) ==
  IF r.raised # NoError THEN [st EXCEPT !.raised = r.raised, !.at = i]
  ELSE ParsingFrom(lines, i + r.lines_consumed,
         IF r.node.type = "python_block"
         THEN [st EXCEPT !.passages.at[st.current_passage].execute = Append(@, r.node)]
         ELSE [st EXCEPT !.passages.at[st.current_passage].content = Append(@, r.node)])

\* the loop of core.py's parse over the lines from the i-th on
ParsingFrom(lines, i, st) ==
  IF i > Len(lines) THEN st
  ELSE CASE lines[i].kind = "start" ->
              ParsingFrom(lines, i + 1, [st EXCEPT !.explicit_start = lines[i].name])
         [] lines[i].kind = "header" ->
              IF st.block_stack # <<>>
              THEN [st EXCEPT !.raised = Error("SyntaxError", "unclosed_block"),
                              !.at = i]
              ELSE ParsingFrom(lines, i + 1, AtHeader(st, lines[i].name, i))
         [] st.current_passage = "" -> ParsingFrom(lines, i + 1, st)
         [] lines[i].kind \in {"py", "oldpy"} ->
              ParsedBlock(lines, i, st, extract_python_block(lines, i))
         [] lines[i].kind \in {"if", "oldif"} ->
              ParsedBlock(lines, i, st, extract_conditional_block(lines, i))
         [] lines[i].kind \in {"for", "oldfor"} ->
              ParsedBlock(lines, i, st, extract_loop_block(lines, i))
         [] lines[i].kind = "jump" ->
              ParsingFrom(lines, i + 1,
                [st EXCEPT !.passages.at[st.current_passage].content =
                             Append(@, Jump(lines[i].name))])
         [] OTHER -> ParsingFrom(lines, i + 1, AtContent(st, lines[i]))

\* parse of compiler/parsing/core.py once the loop over the lines ended: a
\* SyntaxError of the loop, else the checks and the document
ParsingParsed(st) ==
  IF st.raised # NoError
  THEN Compiled(st.raised, PyNone, <<Event("syntax_error", "", st.at)>>)
  ELSE Checked(st, check_duplicate_passages(st.passage_locations),
               _determine_initial_passage(st.passages, st.explicit_start))

RECURSIVE SectionEnd(_, _)
\* the first line from i on that is no import, blank or comment line: there
\* in_imports_section becomes False
SectionEnd(lines, i) ==
  IF i > Len(lines) \/ lines[i].kind \notin {"import", "blank", "comment"} THEN i
  ELSE SectionEnd(lines, i + 1)

\* parse of compiler/parsing/core.py with the import section ending before
\* line k
ParsingAfter(source, k) ==
  WithImports(ParsingParsed(ParsingFrom(source, k, NoLines)), SubSeq(source, 1, k - 1))

\* bardic.compiler.parsing.core.parse(source)
parsing_parse(source) == ParsingAfter(source, SectionEnd(source, 1))

(***************************************************************************)
(* Includes (resolve_includes of compiler/parser.py).  The host keeps the   *)
(* files main.bard, a.bard and b.bard; a path is the resolved path of a     *)
(* file, and gone.bard is the path of no file.  A call in progress is the   *)
(* stack of its activations: for each the file, the line it is at, its set  *)
(* seen and the lines of its result.                                        *)
(***************************************************************************)
MaxIncludes == 3

IncludeLine(path) == [kind |-> "include", name |-> path, value |-> "@include " \o path]

\* the files of the host
FilePaths == {"main.bard", "a.bard", "b.bard"}

\* the paths an @include line names
IncludePaths == {"a.bard", "b.bard", "gone.bard"}

\* each file begins with a line of text
NoIncludes == [base_path \in FilePaths |-> <<TextLine(base_path)>>]

\* no call of resolve_includes in progress
NoResolving == [files |-> NoIncludes, status |-> "idle", stack |-> <<>>, at |-> <<>>]

\* the locals of resolve_includes(source, base_path, seen) when its loop
\* begins: seen.add(base_path) is done
Activation(base_path, seen) ==
  [base_path |-> base_path, seen |-> seen \cup {base_path}, i |-> 1, result |-> <<>>]

\* the str "\n".join(result), known by its lines
Joined(result) == [t |-> "lines", v |-> result]

\* the callers share one set seen with the calls they make
SharedSeen(seen, branch) == branch

\* the set seen of a caller after a call that was handed seen.copy(): what
\* the call added is not in it
CopiedSeen(seen, branch) == seen

\* the number of @include lines in the files
Included(files) ==
  LET n(base_path) == Cardinality({k \in 1..Len(files[base_path]) :
                                     files[base_path][k].kind = "include"})
  IN n("main.bard") + n("a.bard") + n("b.bard")

\* the files of the activations of a stack, outermost first
IncludeChain(stack) == [k \in 1..Len(stack) |-> stack[k].base_path]

\* the end of an activation: its result is returned; the caller appends it
\* to its own result and goes on with its next line
Returning(r) ==
  IF Len(r.stack) = 1 THEN [r EXCEPT !.status = "returned", !.stack = <<>>]
  ELSE [r EXCEPT !.stack =
          Append(SubSeq(r.stack, 1, Len(r.stack) - 2),
                 [r.stack[Len(r.stack) - 1] EXCEPT
                    !.result = @ \o r.stack[Len(r.stack)].result,
                    !.seen = CopiedSeen(@, r.stack[Len(r.stack)].seen)])]

\* a regular line is kept
Keeping(r, line) ==
  [r EXCEPT !.stack[Len(r.stack)].result = Append(@, line.value),
            !.stack[Len(r.stack)].i = @ + 1]

\* an @include line: the file is opened and resolve_includes is called on its
\* content with the set seen of the caller
Including(r, full_path) ==
  IF full_path \notin DOMAIN r.files
  THEN [r EXCEPT !.status = "FileNotFoundError", !.at = Append(IncludeChain(r.stack), full_path),
                 !.stack = <<>>]
  ELSE IF full_path \in r.stack[Len(r.stack)].seen
  THEN [r EXCEPT !.status = "ValueError", !.at = Append(IncludeChain(r.stack), full_path),
                 !.stack = <<>>]
  ELSE [r EXCEPT !.stack = Append([@ EXCEPT ![Len(r.stack)].i = @ + 1],
                                  Activation(full_path, r.stack[Len(r.stack)].seen))]

\* one step of the innermost activation of resolve_includes
Resolved(r) ==
  IF r.stack[Len(r.stack)].i > Len(r.files[r.stack[Len(r.stack)].base_path])
  THEN Returning(r)
  ELSE IF r.files[r.stack[Len(r.stack)].base_path][r.stack[Len(r.stack)].i].kind =
            "include"
  THEN Including(r, r.files[r.stack[Len(r.stack)].base_path][r.stack[Len(r.stack)].i].name)
  ELSE Keeping(r, r.files[r.stack[Len(r.stack)].base_path][r.stack[Len(r.stack)].i])

\* documents a host may hand to BardEngine besides Story: they break the
\* invariant of compiled documents
BadDocuments ==
  {[version |-> "0.1.0", initial_passage |-> "", metadata |-> EmptyMap,
    imports |-> <<>>, passages |-> EmptyMap],
   [version |-> "0.1.0", initial_passage |-> "Start", metadata |-> EmptyMap,
    imports |-> <<>>, passages |-> EmptyMap],
   [version |-> "0.1.0", initial_passage |-> "Gone", metadata |-> EmptyMap,
    imports |-> Story.imports, passages |-> Passages]}

(***************************************************************************)
(* The state: the fields of the engine a host holds, and what the host saw *)
(* of its last call.                                                       *)
(***************************************************************************)
VARIABLES
  current_passage_id,  \* BardEngine.current_passage_id
  state,               \* BardEngine.state, the story variables
  used_choices,        \* BardEngine.used_choices
  context,             \* BardEngine.context
  current_output,      \* BardEngine._current_output
  called,              \* the last call: its name and its argument
  raised,              \* the exception the last call raised, or NoError
  returned,            \* the value the last call returned
  log,                 \* what the last call did, in order
  taken,               \* one-time choices taken since the last reset or load
  other,               \* a second BardEngine built from the same document
  resolving            \* the files of the host and the calls of resolve_includes

vars == <<current_passage_id, state, used_choices, context, current_output,
          called, raised, returned, log, taken, other, resolving>>

\* the engine the variables describe
Engine ==
  [current_passage_id |-> current_passage_id, state |-> state,
   used_choices |-> used_choices, context |-> context,
   current_output |-> current_output]

Call(op, arg) == [op |-> op, arg |-> arg]

\* the values the host submits with submit_inputs
InputData == {[name |-> S("Bo")]}

\* save files a host may hand to load_state besides the one just saved
SaveFiles ==
  LET vars1 == [k \in {"_inputs", "Card", "count"} |->
                  CASE k = "_inputs" -> Dict(EmptyMap)
                    [] k = "Card" -> PyNone
                    [] OTHER -> I(1)]
  IN {NotADict,
      SaveDict([current_passage_id |-> "Room", state |-> vars1, used_choices |-> {}]),
      SaveDict([version |-> "0.1.0", current_passage_id |-> "Gone",
                state |-> vars1, used_choices |-> {}]),
      SaveDict([version |-> "9.9", current_passage_id |-> "Room",
                state |-> vars1, used_choices |-> {"Start:Key:Bad"}]),
      SaveDict([version |-> "0.1.0", state |-> vars1]),
      SaveDict([version |-> "0.1.0", current_passage_id |-> "A",
                state |-> [vars1 EXCEPT !["count"] = I(0)],
                used_choices |-> {"Start:Take:Room"}])}

\* the story counter stays within the bound of the model
Bounded(e) ==
  "count" \in DOMAIN e.state /\ e.state["count"].t = "int"
    => e.state["count"].v <= MaxCount

\* a second engine object with everything the host keeps for it
Session(e, choices) ==
  [current_passage_id |-> e.current_passage_id, state |-> e.state,
   used_choices |-> e.used_choices, context |-> e.context,
   current_output |-> e.current_output, taken |-> choices]

\* every field of a second engine is the object of the first one
AliasedAll == {"state", "used_choices", "current_output"}

\* the fields whose object two engines hold in common: __init__ makes a new
\* dict, a new set and a new cache for each engine, and the host hands each
\* engine a context dict of its own
Aliased == {}

\* the second engine o once a call left the first one as e: an object both
\* hold shows the writes of the call
Seen(o, e) == [f \in DOMAIN o |-> IF f \in Aliased THEN e[f] ELSE o[f]]

\* the engine and the outcome of a call become the next state
Becomes(r, op, arg) ==
  /\ Bounded(r.eng)
  /\ other' = Seen(other, r.eng)
  /\ UNCHANGED resolving
  /\ current_passage_id' = r.eng.current_passage_id
  /\ state' = r.eng.state
  /\ used_choices' = r.eng.used_choices
  /\ context' = r.eng.context
  /\ current_output' = r.eng.current_output
  /\ called' = Call(op, arg)
  /\ raised' = r.raised
  /\ returned' = r.returned
  /\ log' = r.log

\* the state after BardEngine(story, context) answered r
Constructed(r) ==
  /\ r.raised = NoError
  /\ current_passage_id = r.eng.current_passage_id
  /\ state = r.eng.state
  /\ used_choices = r.eng.used_choices
  /\ context = r.eng.context
  /\ current_output = r.eng.current_output
  /\ called = Call("init", "")
  /\ raised = r.raised
  /\ returned = PyNone
  /\ log = r.log
  /\ taken = {}
  /\ other = Session(r.eng, {})
  /\ resolving = NoResolving

Init == Constructed(Construct(HostContext))

\* engine.goto(passage_id)
Goto(passage_id) ==
  /\ Becomes(goto(Engine, passage_id), "goto", passage_id)
  /\ taken' = taken

\* the identity of the one-time choice that choose(choice_index) takes
Identity(choice_index) ==
  <<current_output.passage_id, current_output.choices[choice_index + 1].text.s,
    current_output.choices[choice_index + 1].target>>

\* choose answered r: a one-time choice that navigated is now a taken one
Chosen(r, choice_index) ==
  /\ Becomes(r, "choose", choice_index)
  /\ taken' = IF /\ r.raised = NoError
                 /\ ~Sticky(current_output.choices[choice_index + 1])
              THEN taken \cup {Identity(choice_index)}
              ELSE taken

\* engine.choose(choice_index)
Choose(choice_index) == Chosen(choose(Engine, choice_index), choice_index)

\* engine.current()
Current ==
  /\ Becomes(current(Engine), "current", "")
  /\ taken' = taken

\* engine.submit_inputs(input_data)
SubmitInputs(input_data) ==
  /\ Becomes(submit_inputs(Engine, input_data), "submit_inputs", input_data)
  /\ taken' = taken

\* engine.reset_one_time_choices()
ResetOneTimeChoices ==
  /\ Becomes(reset_one_time_choices(Engine), "reset_one_time_choices", "")
  /\ taken' = {}

\* engine.save_state()
SaveState ==
  /\ Becomes(save_state(Engine), "save_state", "")
  /\ taken' = taken

\* load_state answered r: a load that passed validation replaced used_choices
LoadedAs(r, op, save_data) ==
  /\ Becomes(r, op, save_data)
  /\ taken' = IF r.raised.kind \in {"not_a_dictionary", "missing_version",
                                    "unknown_passage"}
              THEN taken ELSE {}

\* engine.load_state(save_data) on the running engine
LoadState(save_data) == LoadedAs(load_state(Engine, save_data), "load_state", save_data)

\* load_state(save_data) on the engine a constructor call answered
LoadInto(fresh, save_data) ==
  /\ fresh.raised = NoError
  /\ LoadedAs(load_state(fresh.eng, save_data), "load_fresh", save_data)

\* the host replaces the engine by a new one and loads the save just made
LoadFresh ==
  /\ called.op = "save_state"
  /\ LoadInto(Construct(HostContext), returned)

\* the host loads the save it just made into the running engine
LoadSaved ==
  /\ called.op = "save_state"
  /\ LoadState(returned)

Next ==
  \/ \E passage_id \in GotoArgs : Goto(passage_id)
  \/ \E choice_index \in -1..Len(current_output.choices) : Choose(choice_index)
  \/ Current
  \/ \E input_data \in InputData : SubmitInputs(input_data)
  \/ ResetOneTimeChoices
  \/ SaveState
  \/ \E save_data \in SaveFiles : LoadState(save_data)
  \/ LoadSaved
  \/ LoadFresh

Spec == Init /\ [][Next]_vars

\* a host that walks the passages of RenderArgs
NextRender ==
  \/ \E passage_id \in RenderArgs : Goto(passage_id)
  \/ Current
  \/ \E input_data \in InputData : SubmitInputs(input_data)
  \/ SaveState

SpecRender == Init /\ [][NextRender]_vars

\* the source the host is writing or has just compiled
SourceAtHand ==
  IF called.op \in {"edit", "parse", "parsing.parse"} THEN called.arg ELSE <<>>

\* the host adds a line to the source
EditSource(line) ==
  /\ Len(SourceAtHand) < MaxLines
  /\ called' = Call("edit", Append(SourceAtHand, line))
  /\ raised' = NoError
  /\ returned' = PyNone
  /\ log' = <<>>
  /\ UNCHANGED <<current_passage_id, state, used_choices, context, current_output,
                 taken, other, resolving>>

\* a call of the compiler answered r; the engine is no part of it
CompiledAs(r, op, source) ==
  /\ called' = Call(op, source)
  /\ raised' = r.raised
  /\ returned' = r.returned
  /\ log' = r.log
  /\ UNCHANGED <<current_passage_id, state, used_choices, context, current_output,
                 taken, other, resolving>>

\* bardic.parse(source)
Parse == CompiledAs(parse(SourceAtHand), "parse", SourceAtHand)

\* bardic.compiler.parsing.core.parse(source)
ParsingParse == CompiledAs(parsing_parse(SourceAtHand), "parsing.parse", SourceAtHand)

\* BardEngine(story_data, context): the engine under construction replaces
\* the one the host held
NewEngine(story_data) ==
  /\ Becomes(BardEngine(story_data, HostContext), "BardEngine", story_data)
  /\ taken' = {}

NextCompile ==
  \/ \E line \in SourceLines : EditSource(line)
  \/ Parse
  \/ ParsingParse
  \/ \E story_data \in BadDocuments \cup {Story} : NewEngine(story_data)

SpecCompile == Init /\ [][NextCompile]_vars

\* the source at hand, begun with the header of the passage Start
Begun == IF SourceAtHand = <<>> THEN <<Header("Start")>> ELSE SourceAtHand

\* the host has written source
Edited(source) ==
  /\ called' = Call("edit", source)
  /\ raised' = NoError
  /\ returned' = PyNone
  /\ log' = <<>>
  /\ UNCHANGED <<current_passage_id, state, used_choices, context, current_output,
                 taken, other, resolving>>

\* the lines of a passage body with conditionals, loops, text and jumps
FlowLines ==
  {BlockLine("if", "c"), BlockLine("else", ""), BlockLine("endif", ""),
   BlockLine("for", "item"), BlockLine("endfor", ""), TextLine("x"),
   BlockLine("jump", "B")}

\* the host adds a line to the body of the passage Start
EditFlow(line) ==
  /\ Len(Begun) < MaxBody + 1
  /\ Edited(Append(Begun, line))

NextBlocks ==
  \/ \E line \in FlowLines : EditFlow(line)
  \/ ParsingParse

SpecBlocks == Init /\ [][NextBlocks]_vars

\* lines a passage body may hold when it glues text
MaxGlue == 5

\* the lines of a passage body with conditionals, loops, text and glued text
GlueLines ==
  {BlockLine("if", "c"), BlockLine("endif", ""), BlockLine("for", "item"),
   BlockLine("endfor", ""), TextLine("x"), GlueLine("y")}

\* the host adds a line to the body of the passage Start
EditGlue(line) ==
  /\ Len(Begun) < MaxGlue + 1
  /\ Edited(Append(Begun, line))

NextGlue ==
  \/ \E line \in GlueLines : EditGlue(line)
  \/ ParsingParse

SpecGlue == Init /\ [][NextGlue]_vars

\* the lines of a source with openers and closers of both spellings, a
\* second passage header and lines that start with @ and are no directive
StructureLines ==
  {Header("B"), BlockLine("if", "c"), BlockLine("oldif", "c"), BlockLine("endif", ""),
   BlockLine("for", "item"), BlockLine("oldfor", "item"), BlockLine("endfor", ""),
   BlockLine("py", ""), BlockLine("endpy", ""), BlockLine("oldpy", ""),
   BlockLine("close", ""), BlockLine("directive", "iff c:"),
   BlockLine("endif_colon", ""), TextLine("x")}

\* the host adds a line after the header of the passage Start
EditStructure(line) ==
  /\ Len(Begun) < MaxLines
  /\ Edited(Append(Begun, line))

NextStructure ==
  \/ \E line \in StructureLines : EditStructure(line)
  \/ ParsingParse

SpecStructure == Init /\ [][NextStructure]_vars

\* the lines of a file with an import section: imports, blank lines and
\* comments, the header of the passage Start and a line of text
HeadLines ==
  {ImportLine("os"), BlankLine, CommentLine("note"), Header("Start"), TextLine("x")}

\* the host adds a line to the file; blank lines and comments are written
\* before the first passage header only
EditHead(line) ==
  /\ Len(SourceAtHand) < MaxLines
  /\ line.kind \in {"blank", "comment"} =>
        \A k \in 1..Len(SourceAtHand) : SourceAtHand[k].kind # "header"
  /\ Edited(Append(SourceAtHand, line))

NextImports ==
  \/ \E line \in HeadLines : EditHead(line)
  \/ Parse
  \/ ParsingParse

SpecImports == Init /\ [][NextImports]_vars

\* the host writes an @include line at the end of one of its files
WriteInclude(base_path, include_path) ==
  /\ resolving.status = "idle"
  /\ Included(resolving.files) < MaxIncludes
  /\ resolving' = [resolving EXCEPT !.files[base_path] =
                                      Append(@, IncludeLine(include_path))]
  /\ UNCHANGED <<current_passage_id, state, used_choices, context, current_output,
                 called, raised, returned, log, taken, other>>

\* resolve_includes(source, "main.bard") is called
ResolveIncludes ==
  /\ resolving.status = "idle"
  /\ resolving' = [resolving EXCEPT !.status = "running",
                                     !.stack = <<Activation("main.bard", {})>>]
  /\ called' = Call("resolve_includes", "main.bard")
  /\ raised' = NoError
  /\ returned' = PyNone
  /\ log' = <<>>
  /\ UNCHANGED <<current_passage_id, state, used_choices, context, current_output,
                 taken, other>>

\* the call of resolve_includes goes on by one line; at its end it has
\* returned the expanded lines or raised
ResolveStep ==
  /\ resolving.status = "running"
  /\ resolving' = Resolved(resolving)
  /\ raised' = IF resolving'.status = "ValueError"
               THEN Error("ValueError", "circular_include")
               ELSE IF resolving'.status = "FileNotFoundError"
               THEN Error("FileNotFoundError", "include_not_found")
               ELSE NoError
  /\ returned' = IF resolving'.status = "returned"
                 THEN Joined(resolving.stack[1].result) ELSE PyNone
  /\ UNCHANGED <<current_passage_id, state, used_choices, context, current_output,
                 called, log, taken, other>>

NextIncludes ==
  \/ \E base_path \in FilePaths, include_path \in IncludePaths :
       WriteInclude(base_path, include_path)
  \/ ResolveIncludes
  \/ ResolveStep

\* a call that was made goes on until it returns or raises
SpecIncludes == Init /\ [][NextIncludes]_vars /\ WF_vars(ResolveStep)

\* the host turns to its other session: the two engines change places
Switch ==
  /\ current_passage_id' = other.current_passage_id
  /\ state' = other.state
  /\ used_choices' = other.used_choices
  /\ context' = other.context
  /\ current_output' = other.current_output
  /\ taken' = other.taken
  /\ other' = Session(Engine, taken)
  /\ UNCHANGED resolving
  /\ called' = Call("switch", "")
  /\ raised' = NoError
  /\ returned' = PyNone
  /\ log' = <<>>

\* passage ids the host of two sessions passes to goto
SessionArgs == {"Room"}

\* the save file the host of two sessions loads
SessionFiles ==
  {save_data \in SaveFiles : /\ "used_choices" \in DOMAIN save_data.d
                             /\ save_data.d.used_choices # {}}

\* a host that serves two sessions from one document
NextSessions ==
  \/ \E passage_id \in SessionArgs : Goto(passage_id)
  \/ \E choice_index \in {0} : Choose(choice_index)
  \/ \E input_data \in InputData : SubmitInputs(input_data)
  \/ ResetOneTimeChoices
  \/ \E save_data \in SessionFiles : LoadState(save_data)
  \/ Switch

SpecSessions == Init /\ [][NextSessions]_vars

\* the values the host of a form submits, one field or another at a time
Submissions == {[name |-> S("Bo")], [name |-> S("Al")], [age |-> I(1)]}

\* passage ids the host of a form passes to goto
FormArgs == {"Start", "Room", "A", "Bad"}

\* a host that submits the fields of a form between navigations
NextInputs ==
  \/ \E passage_id \in FormArgs : Goto(passage_id)
  \/ \E choice_index \in -1..Len(current_output.choices) : Choose(choice_index)
  \/ \E input_data \in Submissions : SubmitInputs(input_data)

SpecInputs == Init /\ [][NextInputs]_vars

(***************************************************************************)
(* Properties of the engine.                                               *)
(***************************************************************************)
\* the entries of the record l of a call whose kind is among evs
StepsOf(l, evs) == LET Test(x) == x.ev \in evs IN SelectSeq(l, Test)

\* the kind and the passage of each entry, the two outcomes of a command that
\* ran being one kind
Trace(steps) ==
  [k \in 1..Len(steps) |->
     <<IF steps[k].ev \in {"cmd_done", "cmd_failed"} THEN "command" ELSE steps[k].ev,
       steps[k].p>>]

\* the text and the target of each listed choice
Listing(choices) == [k \in 1..Len(choices) |-> <<choices[k].text.s, choices[k].target>>]

\* the cached output lists the one-time choice identity
Listed(identity) ==
  \E k \in 1..Len(current_output.choices) :
    /\ ~Sticky(current_output.choices[k])
    /\ current_output.choices[k].text.s = identity[2]
    /\ current_output.choices[k].target = identity[3]

\* the cached output lists every unconditional sticky choice of its passage
StickyListed ==
  current_output.passage_id \in PassageIds =>
    \A k \in 1..Len(Story.passages[current_output.passage_id].choices) :
      LET choice == Story.passages[current_output.passage_id].choices[k] IN
      (Sticky(choice) /\ choice.condition.op = "none") =>
        \E j \in 1..Len(current_output.choices) :
          /\ Sticky(current_output.choices[j])
          /\ current_output.choices[j].target = choice.target

\* C1: once a one-time choice was taken with choose, no later render of its
\* origin passage lists it again until reset_one_time_choices or load_state;
\* sticky choices stay listed on every visit
C1_OneTimeChoiceStaysHidden ==
  /\ \A identity \in taken :
       current_output.passage_id = identity[1] => ~Listed(identity)
  /\ StickyListed

\* C2: goto(A), where A jumps to B, B jumps to C and C renders without a
\* jump, returns and caches the text of A, B and C before their jumps in that
\* order, runs the commands of A, of B and of C once each and each before its
\* own passage is rendered, lists the choices of C and reports passage C
C2_JumpChainAccumulates ==
  [][(called'.op = "goto" /\ called'.arg = "A" /\ raised' = NoError) =>
       /\ returned'.content = "a\n\nb\n\nc " \o PyStr(state'["count"])
       /\ current_output' = returned'
       /\ Trace(StepsOf(log', {"execute", "cmd_done", "cmd_failed", "cmd_skipped",
                               "render"}))
            = << <<"execute", "A">>, <<"command", "A">>, <<"render", "A">>,
                 <<"execute", "B">>, <<"command", "B">>, <<"render", "B">>,
                 <<"execute", "C">>, <<"command", "C">>, <<"render", "C">> >>
       /\ (state["count"].t = "int" => state'["count"] = I(state["count"].v + 3))
       /\ Listing(returned'.choices) = << <<"Home", "Start">>, <<"Loop", "L1">> >>
       /\ returned'.passage_id = "C"
       /\ current_passage_id' = "C"]_vars

\* goto(A) from the initial state answered the three texts joined
C2_Witness ==
  /\ called.op = "goto" /\ called.arg = "A" /\ raised = NoError
  /\ returned.content = "a\n\nb\n\nc 3"
  /\ returned.passage_id = "C"

\* C3: a jump to a passage already entered during the same call makes goto
\* raise the jump-loop error, so that no call enters a passage twice and every
\* call ends after entering at most as many passages as the document has
C3_JumpLoopDetected ==
  /\ raised.cls # "Diverges"
  /\ \A i, j \in DOMAIN log :
       (i < j /\ log[i].ev = "enter" /\ log[j].ev = "enter") => log[i].p # log[j].p
  /\ (\E i, j \in DOMAIN log :
        i < j /\ log[i].ev = "enter" /\ log[j].ev = "jump" /\ log[j].p = log[i].p)
       => raised = Error("RuntimeError", "jump_loop")
  /\ Len(StepsOf(log, {"enter"})) <= Cardinality(PassageIds)

\* goto(L1) followed the jumps L1 -> L2 -> L1 and raised
C3_Witness ==
  /\ called.op = "goto" /\ called.arg = "L1"
  /\ raised = Error("RuntimeError", "jump_loop")
  /\ Trace(StepsOf(log, {"enter", "jump"}))
       = << <<"enter", "L1">>, <<"jump", "L2">>, <<"enter", "L2">>, <<"jump", "L1">> >>

\* C4: save_state on an engine whose last navigation succeeded, then
\* load_state of that save on a freshly constructed engine, gives the
\* variables (those of the host context aside) and the current_passage_id
\* the engine had when it saved
C4_SaveLoadRoundTrip ==
  [][(called'.op = "load_fresh" /\ current_output.passage_id = current_passage_id) =>
       /\ current_passage_id' = current_passage_id
       /\ \A name \in (DOMAIN state \cup DOMAIN state') \ DOMAIN context :
            /\ name \in DOMAIN state
            /\ name \in DOMAIN state'
            /\ state'[name] = state[name]]_vars

\* C5: goto(x) of a passage x that is rendered without a jump returns an
\* output with passage_id = x, sets current_passage_id to x, and current()
\* afterwards returns that same output
C5_GotoThenCurrent ==
  \A x \in PassageIds :
    (/\ called.op = "goto" /\ called.arg = x
     /\ StepsOf(log, {"render"}) # <<>>
     /\ StepsOf(log, {"jump"}) = <<>>) =>
      /\ raised = NoError
      /\ returned.passage_id = x
      /\ current_passage_id = x
      /\ current(Engine).returned = returned

\* goto(Room) rendered Room, which has no jump
C5_Witness ==
  /\ called.op = "goto" /\ called.arg = "Room" /\ raised = NoError
  /\ returned.passage_id = "Room"
  /\ StepsOf(log, {"jump"}) = <<>>

\* C6: current() returns the cached output, the same each time, and changes
\* no engine field and runs no command
C6_CurrentIsPure ==
  [][called'.op = "current" =>
       /\ raised' = NoError
       /\ returned' = current_output
       /\ log' = <<>>
       /\ current_output' = current_output
       /\ state' = state
       /\ used_choices' = used_choices
       /\ current_passage_id' = current_passage_id
       /\ context' = context]_vars

\* current() answered the cached output of a passage whose command changed a
\* variable when it was entered
C6_Witness ==
  /\ called.op = "current"
  /\ returned = current_output
  /\ current_output.passage_id = "Room"
  /\ log = <<>>

\* C7: choose(i) resolves i against the choices of the cached output: a valid
\* i navigates to the target of that cached choice, any other i raises
\* IndexError and leaves variables, used_choices, current_passage_id and the
\* cached output as they were
C7_ChooseUsesCachedChoices ==
  [][called'.op = "choose" =>
       IF 0 <= called'.arg /\ called'.arg < Len(current_output.choices)
       THEN /\ raised'.cls # "IndexError"
            /\ log' # <<>>
            /\ log'[1] = Event("enter", current_output.choices[called'.arg + 1].target, 0)
       ELSE /\ raised' = Error("IndexError", "choice_index")
            /\ log' = <<>>
            /\ state' = state
            /\ used_choices' = used_choices
            /\ current_passage_id' = current_passage_id
            /\ current_output' = current_output]_vars

\* choose was called with an index past the cached choices while the current
\* passage was no longer the cached one
C7_Witness ==
  /\ called.op = "choose"
  /\ called.arg = Len(current_output.choices)
  /\ raised = Error("IndexError", "choice_index")
  /\ current_passage_id # current_output.passage_id

\* C8: a command of an execute list that fails makes goto raise: no later
\* command runs, the passage is not rendered and the assignment stores nothing
C8_FailingCommandAborts ==
  \A k \in DOMAIN log :
    log[k].ev = "cmd_failed" =>
      /\ raised.cls = "RuntimeError"
      /\ k = Len(log)
      /\ state["count"] # S("1 + 'a'")

\* C9: every command of an execute list and every node of a content list has
\* a type the engine runs or renders, so that every assignment takes effect
C9_EveryEmittedTypeIsRun ==
  /\ \A k \in DOMAIN log : log[k].ev \notin {"cmd_skipped", "node_skipped"}
  /\ (called.op = "goto" /\ called.arg = "Shop" /\ raised = NoError) =>
       /\ "gold" \in DOMAIN state /\ state["gold"] = I(5)
       /\ "paid" \in DOMAIN state /\ state["paid"] = I(1)

\* the save file fails one of the checks load_state makes
FailsValidation(save_data) ==
  \/ ~save_data.isdict
  \/ "version" \notin DOMAIN save_data.d
  \/ Get(save_data.d, "current_passage_id", "Start") \notin PassageIds

\* C10: load_state of a save that is no mapping, has no version, or names a
\* current_passage_id the document does not have raises and leaves variables,
\* used_choices, current_passage_id and the cached output as they were
C10_FailedLoadChangesNothing ==
  [][(called'.op = "load_state" /\ FailsValidation(called'.arg)) =>
       /\ raised'.cls = "ValueError"
       /\ log' = <<>>
       /\ state' = state
       /\ used_choices' = used_choices
       /\ current_passage_id' = current_passage_id
       /\ current_output' = current_output]_vars

\* load_state refused a save that names a passage the document does not
\* have, on an engine whose variables differ from the saved ones
C10_Witness ==
  /\ called.op = "load_state"
  /\ called.arg.isdict /\ "version" \in DOMAIN called.arg.d
  /\ raised = Error("ValueError", "unknown_passage")
  /\ state["count"] # called.arg.d.state["count"]

\* C11: load_state refuses, with an error and without loading, a save whose
\* version field is present but is not the version save_state writes
C11_BadVersionRefused ==
  (/\ called.op = "load_state"
   /\ called.arg.isdict
   /\ "version" \in DOMAIN called.arg.d
   /\ called.arg.d.version # save_state(Engine).returned.d.version) =>
    /\ raised.cls = "ValueError"
    /\ raised.kind \in {"not_a_dictionary", "missing_version", "unknown_passage"}

\* the snapshot a host holds once the engine, after a call of op, has the
\* variables state1: an object the snapshot shares shows what op wrote into it
Held(snapshot, op, state1) ==
  [snapshot.d EXCEPT !.state =
     [key \in DOMAIN @ |->
        IF key \in snapshot.shared \cap UpdatedInPlace(op) /\ key \in DOMAIN state1
        THEN state1[key] ELSE @[key]]]

\* C12: the snapshot save_state returned keeps its current_passage_id, state
\* and used_choices when the engine later runs goto, choose, submit_inputs or
\* reset_one_time_choices, and save_state itself changes no engine field
C12_SnapshotIndependent ==
  [][/\ (/\ called.op = "save_state"
         /\ called'.op \in {"goto", "choose", "submit_inputs",
                            "reset_one_time_choices"}) =>
          Held(returned, called'.op, state') = returned.d
     /\ called'.op = "save_state" =>
          /\ state' = state
          /\ used_choices' = used_choices
          /\ current_passage_id' = current_passage_id
          /\ current_output' = current_output
          /\ context' = context]_vars

\* the one-time choice has the identity of (passage, text, target) in used_choices
Used(passage_id, choice) ==
  /\ ~Sticky(choice)
  /\ ChoiceId(passage_id, _render_choice_text(Engine, choice).text, choice.target)
       \in used_choices

\* the choice has no condition, or one that evaluates truthy
Allowed(choice) ==
  \/ choice.condition.op = "none"
  \/ ConditionHolds(Eval(choice.condition, Merge(context, state)))

\* the choices of the passage that are neither used nor disallowed
Expected(passage_id) ==
  LET Test(choice) == ~Used(passage_id, choice) /\ Allowed(choice)
  IN SelectSeq(Story.passages[passage_id].choices, Test)

\* C13: a render lists a choice if and only if it is not a one-time choice
\* whose identity is in used_choices and it has no condition or a condition
\* that evaluates truthy; a condition that raises hides the choice and does
\* not make goto raise
C13_ListedIffAvailable ==
  (/\ called.op \in {"init", "goto", "choose", "load_state", "load_fresh"}
   /\ raised = NoError) =>
    Listing(current_output.choices) =
      [k \in 1..Len(Expected(current_output.passage_id)) |->
         <<_render_choice_text(Engine, Expected(current_output.passage_id)[k]).text.s,
           Expected(current_output.passage_id)[k].target>>]

\* C14: a conditional evaluates its conditions in order and renders exactly
\* the first branch whose condition is truthy: once a branch is taken no later
\* condition is evaluated and no other branch is rendered or executed, and a
\* conditional none of whose conditions is truthy renders nothing
C14_FirstTruthyBranchOnly ==
  /\ \A i \in 1..Len(log) : \A k \in 1..Len(log) :
       (/\ i < k
        /\ log[i].ev = "branch"
        /\ log[k].ev \in {"cond", "branch"}) => log[k].p # log[i].p
  /\ (called.op = "goto" /\ called.arg = "Quiet" /\ raised = NoError) =>
       returned.content = "n:."

\* C15: a for-loop leaves each of its loop variables bound as it was before
\* the loop: absent if it was undefined, its prior value (null included) if it
\* was defined, for a single variable and for tuple unpacking alike
C15_LoopRestoresBindings ==
  \A i \in 1..Len(log) :
    log[i].ev = "loop" =>
      \E k \in (i + 1)..Len(log) :
        /\ log[k].ev = "loop_end"
        /\ log[k].p = log[i].p
        /\ log[k].n = log[i].n

\* C18: from construction onward the context map is the one the host
\* supplied: the imports, the set-variable commands, the python blocks and
\* the binding of loop variables add, remove or rebind no key of it
C18_ContextNeverWritten == context = HostContext

\* the passages the last call entered, in order
Chain == [k \in 1..Len(StepsOf(log, {"enter"})) |-> StepsOf(log, {"enter"})[k].p]

RECURSIVE Flat(_)
\* the concatenation of a sequence of sequences
Flat(seqs) == IF seqs = <<>> THEN <<>> ELSE Head(seqs) \o Flat(Tail(seqs))

\* the names of the directives of the given type in a list of nodes
NamesOf(nodes, type) ==
  LET Test(x) == x.type = type
  IN [k \in 1..Len(SelectSeq(nodes, Test)) |-> SelectSeq(nodes, Test)[k].name]

\* C19: after goto followed a jump chain, the cached output holds the
\* directives of every passage of the chain, in chain order: the render
\* directives and the input directives of the passages before the last one
\* as well as those of the last one
C19_ChainKeepsAllDirectives ==
  (called.op = "goto" /\ raised = NoError) =>
    /\ NamesOf(current_output.render_directives, "render_directive") =
         Flat([k \in 1..Len(Chain) |->
                 NamesOf(Story.passages[Chain[k]].content, "render_directive")])
    /\ NamesOf(current_output.input_directives, "input") =
         Flat([k \in 1..Len(Chain) |->
                 IF "input_directives" \in DOMAIN Story.passages[Chain[k]]
                 THEN NamesOf(Story.passages[Chain[k]].input_directives, "input")
                 ELSE <<>>])

\* C20: an expression node whose evaluation raises (an undefined name, a type
\* error, an attribute error, any other exception, a syntax error) adds an
\* inline {ERROR: ...} marker to the text: goto does not raise and the nodes
\* after it are rendered
C20_FailingExpressionIsMarked ==
  (called.op = "goto" /\ called.arg = "Err") =>
    /\ raised = NoError
    /\ returned.passage_id = "Err"
    /\ returned.content =
         "e:{ERROR: undefined variable 'missing'}"
         \o "|{ERROR: 1 + 'a' - unsupported operand type(s) for +: 'int' and 'str'}"
         \o "|{ERROR: count.nope - 'int' object has no attribute 'nope'}"
         \o "|{ERROR: 1 // 0 - ZeroDivisionError: integer division or modulo by zero}"
         \o "|{ERROR: 1 ? 1 - SyntaxError: invalid syntax (<string>, line 1)}"
         \o "|" \o PyStr(state["count"]) \o "|end"

\* goto rendered the passage whose expressions raise
C20_Witness ==
  /\ called.op = "goto" /\ called.arg = "Err"
  /\ current_output.passage_id = "Err"
  /\ Len(StepsOf(log, {"render"})) = 1

\* the numbers of the lines of the source that are headers of the name
HeaderLines(source, name) ==
  LET Test(i) == source[i] = Header(name)
  IN SelectSeq([i \in 1..Len(source) |-> i], Test)

\* the names the source defines more than once
Duplicated(source) ==
  {source[i].name : i \in {k \in 1..Len(source) :
                              /\ source[k].kind = "header"
                              /\ Len(HeaderLines(source, source[k].name)) > 1}}

\* C16: compiling a source that defines a passage name more than once fails
\* with one error that lists every duplicated name with the line numbers of
\* all its definitions; no document is returned, so a later definition never
\* replaces the earlier one
C16_DuplicateNamesRefused ==
  (/\ called.op \in {"parse", "parsing.parse"}
   /\ Duplicated(called.arg) # {}) =>
    /\ raised = Error("ValueError", "duplicate_passages")
    /\ "passages" \notin DOMAIN returned
    /\ Len(log) = Cardinality(Duplicated(called.arg))
    /\ {<<log[k].p, log[k].n>> : k \in 1..Len(log)} =
         {<<name, HeaderLines(called.arg, name)>> : name \in Duplicated(called.arg)}

\* the passage the @start directive in effect names, "" without a directive:
\* of several directives the last one is in effect
StartOf(source) ==
  LET Test(line) == line.kind = "start"
  IN IF SelectSeq(source, Test) = <<>> THEN ""
     ELSE SelectSeq(source, Test)[Len(SelectSeq(source, Test))].name

\* the source has no passage, or its @start names a passage it does not have
BadSource(source) ==
  \/ \A i \in 1..Len(source) : source[i].kind # "header"
  \/ /\ StartOf(source) # ""
     /\ \A i \in 1..Len(source) : source[i] # Header(StartOf(source))

\* the document has passages and its initial passage is one of them
WellFormed(story_data) ==
  /\ DOMAIN story_data.passages # {}
  /\ story_data.initial_passage \in DOMAIN story_data.passages

\* C17: every document the compiler returns has a non-empty passages map
\* with initial_passage among its keys; a source with no passages, or whose
\* @start names a missing passage, raises at compile time; and constructing
\* an engine from a document that breaks the invariant raises before any
\* passage is entered
C17_InitialPassageExists ==
  /\ called.op \in {"parse", "parsing.parse"} =>
       /\ raised = NoError => WellFormed(returned)
       /\ BadSource(called.arg) =>
            /\ raised.cls = "ValueError"
            /\ "passages" \notin DOMAIN returned
  /\ (called.op = "BardEngine" /\ ~WellFormed(called.arg)) =>
       /\ raised.cls = "ValueError"
       /\ current_passage_id = NonePassage
       /\ current_output = NoOutput
       /\ log = <<>>

\* the compiler refused a source that has passages and whose @start names
\* none of them
C17_Witness ==
  /\ called.op = "parse"
  /\ called.arg = <<StartLine("Z"), Header("Start"), TextLine("x"), Header("A")>>
  /\ raised = Error("ValueError", "start_not_found")
  /\ returned = PyNone

\* the one-time choices of the passage whose condition is absent or holds
\* under the given context and variables
OneTimeOffers(passage_id, ctx, st) ==
  {<<choice.text.fmt, _render_content(choice.text.toks, st, ctx, passage_id, <<>>).text,
     choice.text.s, choice.target>> :
     choice \in {Story.passages[passage_id].choices[k] :
                   k \in {j \in 1..Len(Story.passages[passage_id].choices) :
                            LET c == Story.passages[passage_id].choices[j]
                            IN /\ ~Sticky(c)
                               /\ \/ c.condition.op = "none"
                                  \/ ConditionHolds(Eval(c.condition, Merge(ctx, st)))}}}

\* C27: reset_one_time_choices empties used_choices and changes neither the
\* variables nor current_passage_id, and the render that follows it lists
\* every one-time choice of the passage whose condition holds, the choices
\* taken before the reset included
C27_ResetShowsChoicesAgain ==
  [][/\ called'.op = "reset_one_time_choices" =>
          /\ used_choices' = {}
          /\ state' = state
          /\ current_passage_id' = current_passage_id
          /\ raised' = NoError
     /\ (/\ called.op = "reset_one_time_choices"
         /\ called'.op = "goto"
         /\ raised' = NoError) =>
          \A offer \in OneTimeOffers(current_output'.passage_id, context', state') :
            <<IF offer[1] = "str" THEN offer[3] ELSE offer[2], offer[4]>>
              \in {Listing(current_output'.choices)[k] :
                     k \in 1..Len(current_output'.choices)}]_vars

\* the reset came while the cached render of Start hid the one-time choice
\* Key, taken before
C27_Witness ==
  /\ called.op = "reset_one_time_choices"
  /\ current_output.passage_id = "Start"
  /\ <<"Key", "Bad">> \notin {Listing(current_output.choices)[k] :
                                k \in 1..Len(current_output.choices)}
  /\ used_choices = {}

\* the names of the passage headers of the source, in order
HeaderNames(source) ==
  LET Test(line) == line.kind = "header"
  IN [k \in 1..Len(SelectSeq(source, Test)) |-> SelectSeq(source, Test)[k].name]

\* the initial passage by priority: @start, else Start, else the first passage
Preferred(source) ==
  IF StartOf(source) # "" THEN StartOf(source)
  ELSE IF \E k \in 1..Len(HeaderNames(source)) : HeaderNames(source)[k] = "Start"
  THEN "Start"
  ELSE HeaderNames(source)[1]

\* C28: the compiler takes as initial passage the target of the @start
\* directive if there is one (an error if the source has no such passage),
\* otherwise the passage named Start if there is one, otherwise the first
\* passage of the source, and in that last case compilation succeeds
C28_InitialPassagePriority ==
  (called.op \in {"parse", "parsing.parse"} /\ HeaderNames(called.arg) # <<>>) =>
    /\ raised = NoError => returned.initial_passage = Preferred(called.arg)
    /\ (/\ StartOf(called.arg) # ""
        /\ \A k \in 1..Len(HeaderNames(called.arg)) :
             HeaderNames(called.arg)[k] # StartOf(called.arg)) =>
         raised.cls = "ValueError"
    /\ (StartOf(called.arg) = "" /\ Duplicated(called.arg) = {}) =>
         raised = NoError

\* a source whose second passage is Start compiled with Start as initial
\* passage
C28_Witness ==
  /\ called.op = "parse"
  /\ called.arg = <<Header("A"), TextLine("x"), Header("Start")>>
  /\ raised = NoError
  /\ returned.initial_passage = "Start"

OpenStep(stack, line) ==
  IF stack # <<>> /\ stack[Len(stack)] \in {"py", "oldpy"}
  THEN IF \/ stack[Len(stack)] = "py" /\ line.kind = "endpy"
          \/ stack[Len(stack)] = "oldpy" /\ line.kind = "close"
       THEN SubSeq(stack, 1, Len(stack) - 1) ELSE stack
  ELSE CASE line.kind \in {"if", "oldif"} -> Append(stack, "if")
         [] line.kind \in {"for", "oldfor"} -> Append(stack, "for")
         [] line.kind \in {"py", "oldpy"} -> Append(stack, line.kind)
         [] line.kind = "endif" /\ stack # <<>> /\ stack[Len(stack)] = "if" ->
              SubSeq(stack, 1, Len(stack) - 1)
         [] line.kind = "endfor" /\ stack # <<>> /\ stack[Len(stack)] = "for" ->
              SubSeq(stack, 1, Len(stack) - 1)
         [] OTHER -> stack

RECURSIVE Open(_, _)
\* the blocks of the passage at hand that are open after line k
Open(source, k) ==
  IF k = 0 \/ source[k].kind = "header" THEN <<>>
  ELSE OpenStep(Open(source, k - 1), source[k])

\* C21: a passage header line that comes while a block (if, for or embedded
\* script) opened in the passage before it is still open makes compilation
\* fail: the header is not taken into the block and the block is not closed
\* in a later passage
C21_HeaderInsideBlockRefused ==
  (/\ called.op = "parsing.parse"
   /\ \E h \in 2..Len(called.arg) :
        called.arg[h].kind = "header" /\ Open(called.arg, h - 1) # <<>>) =>
    /\ raised # NoError
    /\ "passages" \notin DOMAIN returned

\* C22: an opener (if, for or embedded script, in either spelling) that has
\* no matching closer before the end of the input makes compilation fail
C22_UnclosedBlockRefused ==
  (/\ called.op = "parsing.parse"
   /\ \A h \in 2..Len(called.arg) : called.arg[h].kind # "header"
   /\ Open(called.arg, Len(called.arg)) # <<>>) =>
    /\ raised.cls = "SyntaxError"
    /\ "passages" \notin DOMAIN returned

\* line i of the source starts with @, is outside an embedded script and is
\* no directive: a misspelt one, or an @endif with no conditional open
Unrecognised(source, i) ==
  /\ \/ Open(source, i - 1) = <<>>
     \/ Open(source, i - 1)[Len(Open(source, i - 1))] \notin {"py", "oldpy"}
  /\ \/ source[i].kind \in {"directive", "endif_colon"}
     \/ source[i].kind = "endif" /\ "if" \notin {Open(source, i - 1)[k] :
                                                   k \in 1..Len(Open(source, i - 1))}

\* C23: inside a passage a line that starts with @ and is no recognised
\* directive makes compilation fail; it is never compiled as text
C23_UnknownDirectiveRefused ==
  (/\ called.op = "parsing.parse"
   /\ \E i \in 2..Len(called.arg) : Unrecognised(called.arg, i)) =>
    /\ raised.cls = "SyntaxError"
    /\ "passages" \notin DOMAIN returned

RECURSIVE InOrder(_, _, _)
\* the nodes of the text and jump lines i..j of a source in the order they
\* are written: a text token and a newline for a text line, a jump node for
\* a jump
InOrder(source, i, j) ==
  IF i > j THEN <<>>
  ELSE (IF source[i].kind = "jump" THEN <<Jump(source[i].name)>>
        ELSE <<Text(Raw(source[i])), Text("\n")>>) \o InOrder(source, i + 1, j)

\* C29: the content compiled for a branch of a conditional keeps the order
\* of the source: the text lines written before a jump stand before the jump
\* node in the content of the branch
C29_BranchKeepsSourceOrder ==
  (/\ called.op = "parsing.parse"
   /\ Len(called.arg) >= 3
   /\ called.arg[2].kind = "if"
   /\ called.arg[Len(called.arg)].kind = "endif"
   /\ \A k \in 3..(Len(called.arg) - 1) : called.arg[k].kind \in {"text", "jump"}) =>
    /\ raised = NoError
    /\ returned.passages["Start"].content =
         <<Conditional(<<Branch(called.arg[2].name,
                               InOrder(called.arg, 3, Len(called.arg) - 1))>>)>>

\* the lines 2..n of a source are a well nested passage body: every else
\* and endif stands in a conditional that is the innermost open block, every
\* endfor in a loop that is, and no block is open at the end
WellNested(source) ==
  /\ \A k \in 2..Len(source) :
        /\ source[k].kind \in {"if", "else", "endif", "for", "endfor", "text", "glue",
                               "jump"}
        /\ source[k].kind \in {"else", "endif", "endfor"} =>
              /\ Open(source, k - 1) # <<>>
              /\ Open(source, k - 1)[Len(Open(source, k - 1))] =
                   (IF source[k].kind = "endfor" THEN "for" ELSE "if")
  /\ Open(source, Len(source)) = <<>>

RECURSIVE TopLevel(_, _)
\* the types of the nodes the lines 2..k of a well nested body stand for
\* outside every block: a text token and a newline for a text line, one node
\* for a jump, one for each block opened outside every block
TopLevel(source, k) ==
  IF k < 2 THEN <<>>
  ELSE TopLevel(source, k - 1) \o
       (IF Open(source, k - 1) # <<>> THEN <<>>
        ELSE CASE source[k].kind = "if" -> <<"conditional">>
               [] source[k].kind = "for" -> <<"for_loop">>
               [] source[k].kind = "jump" -> <<"jump">>
               [] OTHER -> <<"text", "text">>)

\* C30: the extractors pair each opener with its own closer: a well nested
\* passage body compiles, and each block that is opened outside every block
\* ends at its own closer, so the content of the passage holds one node for
\* each such block and the lines after its closer follow it
C30_OpenerPairsWithOwnCloser ==
  (/\ called.op = "parsing.parse"
   /\ Len(called.arg) >= 2
   /\ WellNested(called.arg)) =>
    /\ raised = NoError
    /\ [k \in 1..Len(returned.passages["Start"].content) |->
          returned.passages["Start"].content[k].type] =
         TopLevel(called.arg, Len(called.arg))

\* an import line of the source stands after a line that is no import, no
\* blank line and no comment
ImportAfterContent(source) ==
  \E i, j \in 1..Len(source) :
    /\ i < j
    /\ source[i].kind \notin {"import", "blank", "comment"}
    /\ source[j].kind = "import"

\* C24: compilation fails on an import line exactly when the line stands
\* after non-import content: imports, blank lines and comments of the leading
\* import section are accepted, an import after the first header or other
\* content is refused
C24_ImportAfterContentRefused ==
  called.op \in {"parse", "parsing.parse"} =>
    /\ ImportAfterContent(called.arg) =>
         /\ raised # NoError
         /\ "passages" \notin DOMAIN returned
    /\ ~ImportAfterContent(called.arg) =>
         raised # Error("ValueError", "import_after_content")

\* the paths the @include lines of the files at paths name
IncludedBy(files, paths) ==
  UNION {{files[base_path][k].name :
            k \in {n \in 1..Len(files[base_path]) :
                     files[base_path][n].kind = "include"}} :
         base_path \in paths \cap DOMAIN files}

\* the paths reached from paths by one or more includes: with three files
\* no chain without a repeat is longer than three includes
ReachedFrom(files, paths) ==
  LET one == IncludedBy(files, paths)
      two == one \cup IncludedBy(files, one)
  IN two \cup IncludedBy(files, two)

\* some file that main.bard reaches is reached again along its own chain of
\* includes
Circular(files) ==
  \E base_path \in ({"main.bard"} \cup ReachedFrom(files, {"main.bard"})) \cap DOMAIN files :
    base_path \in ReachedFrom(files, {base_path})

\* the number of lines of the file at base_path that include path
TimesIn(files, base_path, path) ==
  Cardinality({k \in 1..Len(files[base_path]) : files[base_path][k] = IncludeLine(path)})

RECURSIVE PlacesOf(_, _)
\* the number of places where the text of the file at path belongs in the
\* expansion of main.bard when no chain is circular: one for each chain of
\* includes from main.bard to it
PlacesOf(files, path) ==
  IF path = "main.bard" THEN 1
  ELSE LET from(base_path) ==
             IF \/ base_path \notin {"main.bard"} \cup ReachedFrom(files, {"main.bard"})
                \/ TimesIn(files, base_path, path) = 0
             THEN 0
             ELSE TimesIn(files, base_path, path) * PlacesOf(files, base_path)
       IN from("main.bard") + from("a.bard") + from("b.bard")

\* what holds of resolve_includes at every moment of a call and at its end
ResolvedRight ==
  /\ \A j, k \in 1..Len(resolving.stack) :
        resolving.stack[j].base_path = resolving.stack[k].base_path => j = k
  /\ resolving.status = "ValueError" =>
        /\ Circular(resolving.files)
        /\ \E k \in 1..(Len(resolving.at) - 1) :
              resolving.at[k] = resolving.at[Len(resolving.at)]
  /\ resolving.status = "FileNotFoundError" =>
        /\ "gone.bard" \in ReachedFrom(resolving.files, {"main.bard"})
        /\ resolving.at[Len(resolving.at)] \notin DOMAIN resolving.files
  /\ resolving.status = "returned" =>
        /\ ~Circular(resolving.files)
        /\ "gone.bard" \notin ReachedFrom(resolving.files, {"main.bard"})
        /\ \A path \in FilePaths :
              Cardinality({k \in 1..Len(returned.v) : returned.v[k] = path}) =
                PlacesOf(resolving.files, path)

\* C25: resolve_includes ends on every set of files; it raises the circular
\* include error only when a file is reached again along its own chain of
\* includes and never enters a file twice on one chain, it expands a file
\* that sibling branches include in each place, and it raises when an
\* included file is missing
C25_ResolveIncludesEnds ==
  /\ []ResolvedRight
  /\ (resolving.status = "running") ~> (resolving.status \notin {"idle", "running"})

\* main.bard includes a.bard and b.bard, a.bard includes b.bard: the call
\* returned with the text of b.bard in both places
C25_Witness ==
  /\ resolving.status = "returned"
  /\ resolving.files["main.bard"] =
       <<TextLine("main.bard"), IncludeLine("a.bard"), IncludeLine("b.bard")>>
  /\ resolving.files["a.bard"] = <<TextLine("a.bard"), IncludeLine("b.bard")>>
  /\ returned = Joined(<<"main.bard", "a.bard", "b.bard", "b.bard">>)

RECURSIVE ListsIn(_)
RECURSIVE ListsOf(_)
\* the node lists of a node list: the list, and the lists of its nodes
ListsIn(tokens) == {tokens} \cup UNION {ListsOf(tokens[k]) : k \in 1..Len(tokens)}

\* the node lists of a node: the contents of its branches, or its body
ListsOf(node) ==
  CASE node.type = "conditional" ->
         UNION {ListsIn(node.branches[j].content) : j \in 1..Len(node.branches)}
    [] node.type = "for_loop" -> ListsIn(node.content)
    [] OTHER -> {}

\* the node lists of the story
StoryLists == UNION {ListsIn(Passages[passage_id].content) : passage_id \in DOMAIN Passages}

\* the rendering of a list, and the rendering of the part of it up to a
\* node: when that part ends in a jump the whole list renders to the same
\* text, directives, jump target and variables, and does the same steps
EndsAt(whole, part) == part.jump # "" => whole = part

\* C31: a jump that rendering reaches, in a node list, in the taken branch
\* of a conditional or in an iteration of a loop, ends the rendering of the
\* list: no later node, no later iteration and no later sibling of the
\* enclosing block is rendered or run, and the text and the directives
\* produced before the jump are in the output
C31_JumpEndsTheList ==
  /\ \A tokens \in StoryLists : \A i \in 1..Len(tokens) :
        EndsAt(_render_content(tokens, state, context, current_passage_id, <<>>),
               _render_content(SubSeq(tokens, 1, i), state, context,
                               current_passage_id, <<>>))
  /\ (called.op = "goto" /\ called.arg \in {"A", "Hop", "Skip"}) =>
        /\ raised = NoError
        /\ "late" \notin DOMAIN state
        /\ StepsOf(log, {"block_done", "block_failed"}) = <<>>
  /\ (called.op = "goto" /\ called.arg = "Hop") =>
        /\ returned.content = "hop in \n\nStart."
        /\ returned.render_directives =
             <<_process_render_directive(RenderDirective("card", <<One>>), state,
                                         context)>>
        /\ StepsOf(log, {"cond", "branch"}) =
             <<Event("cond", "Hop", 1), Event("branch", "Hop", 1)>>
  /\ (called.op = "goto" /\ called.arg = "Skip") =>
        /\ returned.content = "skip 1\n\nStart."
        /\ returned.render_directives =
             <<_process_render_directive(RenderDirective("card", <<One>>), state,
                                         context)>>
        /\ StepsOf(log, {"item"}) = <<Event("item", "Skip", 1)>>

\* goto entered Hop, whose taken branch jumps to Start after a line of text
\* and a directive
C31_Witness ==
  /\ called.op = "goto" /\ called.arg = "Hop"
  /\ current_passage_id = "Start"
  /\ current_output.content = "hop in \n\nStart."
  /\ Len(current_output.render_directives) = 1

\* the story counter a save file holds, 0 when it holds a value of another type
SavedCount(save_data) ==
  LET saved == Get(save_data.d, "state", EmptyMap)["count"]
  IN IF saved.t = "int" THEN saved.v ELSE 0

\* the save file holds an integer for the story counter
CountSaved(save_data) == Get(save_data.d, "state", EmptyMap)["count"].t = "int"

\* C32: load_state of a save that passes validation restores the saved
\* variables and used_choices and then navigates to the saved passage with
\* goto: that passage's execute commands run exactly once more, on the restored
\* variables (a loaded counter is incremented again), and a jump it ends in
\* is followed
C32_LoadRunsThePassageAgain ==
  [][(/\ called'.op = "load_state"
      /\ ~FailsValidation(called'.arg)
      /\ raised' = NoError) =>
       LET target == Get(called'.arg.d, "current_passage_id", "Start")
           entered == Trace(StepsOf(log', {"execute"}))
       IN /\ used_choices' = Get(called'.arg.d, "used_choices", {})
          /\ entered # <<>>
          /\ entered[1] = <<"execute", target>>
          /\ \A k \in 2..Len(entered) : entered[k] # <<"execute", target>>
          /\ entered[Len(entered)] = <<"execute", current_passage_id'>>
          /\ current_output'.passage_id = current_passage_id'
          /\ (target = "Room" /\ CountSaved(called'.arg)) =>
               state'["count"] = I(SavedCount(called'.arg) + 1)
          /\ (target = "A" /\ CountSaved(called'.arg)) =>
               /\ entered = << <<"execute", "A">>, <<"execute", "B">>, <<"execute", "C">> >>
               /\ state'["count"] = I(SavedCount(called'.arg) + 3)
               /\ current_passage_id' = "C"]_vars

\* a save made in Room after its counter was raised has been loaded: the
\* counter is one above the saved one
C32_Witness ==
  /\ called.op = "load_state"
  /\ raised = NoError
  /\ Get(called.arg.d, "current_passage_id", "Start") = "Room"
  /\ CountSaved(called.arg)
  /\ SavedCount(called.arg) >= 1
  /\ state["count"] = I(SavedCount(called.arg) + 1)
  /\ current_passage_id = "Room"

\* the passages whose for-loop fails, with the text that precedes the loop
FailingLoops == [NoColl |-> "f:", BadBody |-> "g:"]

\* the messages of the exceptions the failing loops raise
LoopMessages == {"name 'missing' is not defined", "python_block"}

\* C33: a for-loop whose collection expression or whose body raises puts an
\* inline {ERROR: Loop failed ...} marker in the text: goto does not raise and
\* the nodes after the loop are rendered
C33_LoopErrorShownInline ==
  (called.op = "goto" /\ called.arg \in DOMAIN FailingLoops) =>
    /\ raised = NoError
    /\ current_output.passage_id = called.arg
    /\ \E msg \in LoopMessages :
         current_output.content =
           FailingLoops[called.arg] \o "{ERROR: Loop failed - " \o msg \o "}" \o "after"

\* the steps of a call that run a script, open a branch or an iteration, or
\* start the rendering of a passage
ScriptSteps ==
  StepsOf(log, {"cmd_done", "cmd_failed", "block_done", "block_failed", "branch",
                "item", "render"})

C35_RaisingConditionIsFalse ==
  (called.op = "goto" /\ called.arg = "Else") =>
    /\ raised = NoError
    /\ returned.content = "e:else."
    /\ Eval(Story.passages["Else"].content[2].branches[1].condition,
            Merge(context, state)).cls # ""
    /\ Eval(Story.passages["Else"].content[2].branches[2].condition,
            Merge(context, state)).cls # ""
    /\ StepsOf(log, {"cond", "branch"}) =
         <<Event("cond", "Else", 1), Event("cond", "Else", 2),
           Event("cond", "Else", 3), Event("branch", "Else", 3)>>

\* goto rendered Else: two conditions raised and the else branch was rendered
C35_Witness ==
  /\ called.op = "goto" /\ called.arg = "Else"
  /\ raised = NoError
  /\ current_output.content = "e:else."
  /\ Len(StepsOf(log, {"branch"})) = 1

RECURSIVE TextsIn(_)
\* the values of the text nodes of a content list in reading order, those of
\* the branches of its conditionals and of the bodies of its loops included
TextsIn(content) ==
  IF content = <<>> THEN <<>>
  ELSE LET node == Head(content)
           BranchesIn[k \in 0..Len(node.branches)] ==
             IF k = 0 THEN <<>>
             ELSE BranchesIn[k - 1] \o TextsIn(node.branches[k].content)
       IN (CASE node.type = "text" -> <<node.value>>
             [] node.type = "conditional" -> BranchesIn[Len(node.branches)]
             [] node.type = "for_loop" -> TextsIn(node.content)
             [] OTHER -> <<>>)
          \o TextsIn(Tail(content))

RECURSIVE GluedFrom(_, _)
\* the text values the content lines from the i-th on stand for: the text
\* and a newline, or the text before <> alone
GluedFrom(source, i) ==
  IF i > Len(source) THEN <<>>
  ELSE (CASE source[i].kind = "text" -> <<source[i].value, "\n">>
          [] source[i].kind = "glue" -> <<source[i].value>>
          [] OTHER -> <<>>)
       \o GluedFrom(source, i + 1)

\* C36: a content line of a passage, a branch or a loop body that ends with
\* <> is compiled to its tokens without the <> and without a newline node
\* after them, every other content line is followed by exactly one newline
\* node; also when the line is flushed because a script, a directive, a choice
\* or a nested block follows it in the branch
C36_GlueDropsTheNewline ==
  (/\ called.op = "parsing.parse"
   /\ Len(called.arg) >= 2
   /\ WellNested(called.arg)
   /\ raised = NoError) =>
    TextsIn(returned.passages["Start"].content) = GluedFrom(called.arg, 2)

\* C37: submit_inputs(m) merges m into the _inputs entry of the variables:
\* the names of m get the values of m, the other names keep theirs; the
\* values stay as submitted across every later goto and choose, and
\* submit_inputs changes neither current_passage_id, used_choices nor the
\* cached output
C37_InputsMergedAndKept ==
  [][/\ called'.op = "submit_inputs" =>
          /\ raised' = NoError
          /\ "_inputs" \in DOMAIN state'
          /\ DOMAIN state'["_inputs"].v = DOMAIN state["_inputs"].v \cup DOMAIN called'.arg
          /\ \A name \in DOMAIN called'.arg : state'["_inputs"].v[name] = called'.arg[name]
          /\ \A name \in DOMAIN state["_inputs"].v \ DOMAIN called'.arg :
               state'["_inputs"].v[name] = state["_inputs"].v[name]
          /\ current_passage_id' = current_passage_id
          /\ used_choices' = used_choices
          /\ current_output' = current_output
     /\ called'.op \in {"goto", "choose"} =>
          /\ "_inputs" \in DOMAIN state'
          /\ state'["_inputs"] = state["_inputs"]]_vars

\* a name was submitted twice and another once, and the engine then moved to
\* another passage: the later value of the one and the value of the other
\* are there
C37_Witness ==
  /\ called.op \in {"goto", "choose"}
  /\ raised = NoError
  /\ current_passage_id = "Room"
  /\ DOMAIN state["_inputs"].v = {"name", "age"}
  /\ state["_inputs"].v["name"] = S("Al")
  /\ state["_inputs"].v["age"] = I(1)

\* C38: in every state the engine reaches, those after a goto, choose or
\* load_state that raised included, current_passage_id is a key of the
\* passages of the document: a jump to a target the document does not have
\* leaves the engine on no such passage
C38_CurrentPassageExists == current_passage_id \in DOMAIN Story.passages

\* C39: current_passage_id is the passage_id of the output current()
\* returns, in every state, those after a call that raised part-way through a
\* jump chain included
C39_CurrentMatchesCache == current(Engine).returned.passage_id = current_passage_id

\* C40: choose is all or nothing for the record of one-time choices: a
\* choose(i) that raises (an index out of range, a goto that fails on an
\* unknown passage, a jump loop or a failing command) leaves used_choices as
\* it was
C40_FailedChooseRecordsNothing ==
  [][(called'.op = "choose" /\ raised' # NoError) => used_choices' = used_choices]_vars
====
